---- MODULE Spec2Model ----
(***************************************************************************)
(* Yard planner allocation engine (src/yardplannerV2E6.py): containers,    *)
(* yard positions, yard areas, the import (transporter-grouped) and export *)
(* (port/weight-grouped) layout optimizers and the proposal loop.          *)
(* Weights are integers in hundredths of a ton (18.9 t = 1890).            *)
(***************************************************************************)
EXTENDS Integers, Sequences, FiniteSets, TLC

\* ------------------------------------------------------------------ bounds
\* Rows 1..NumRows and the first NumCols column letters of each area
\* (the code builds rows 1..31 and columns A..U).
NumRows == 2
NumCols == 1
\* Longest container list handed to the optimizer.
MaxContainers == 5
\* Largest num_proposals handed to generate_multiple_proposals.
MaxProposals == 2
\* Largest weight (hundredths of a ton) classified on its own.
MaxWeight == 6000
\* Most rows that follow a row with neither weight nor known ISO type.
MaxAfterUnknown == 0
\* Longest placement map the grouping efficiency is computed for on its own.
MaxRecords == 3
\* Rows of a zone in the runs on one zone (31 rows in the code).
ZoneRows == 14
\* place_container calls in a run on one zone.
MaxPlacements == 6

\* Python's None, where a string is expected.
None == "None"

\* -------------------------------------------------------------- Container
\* '<sub>' in str(s)
Contains(s, sub) ==
    \E j \in 1..(Len(s) - Len(sub) + 1) : SubSeq(s, j, j + Len(sub) - 1) = sub

\* Container._determine_size: the sizes the constructor can give an ISO type.
DetermineSize(iso_type) ==
    IF iso_type # None /\ Contains(iso_type, "45") THEN {12}
    ELSE IF iso_type # None /\ (Contains(iso_type, "22") \/ Contains(iso_type, "20"))
         THEN {6}
    ELSE {6, 12}

\* The weight class table, class_id -> (min_w, max_w), in hundredths of a ton.
weight_classes ==
    << <<0, 1890>>, <<1900, 2340>>, <<2350, 2540>>, <<2550, 2660>>,
       <<2670, 2840>>, <<2850, 3000>>, <<3010, 3100>>, <<3110, 5000>> >>

\* ClassifyFrom with the interval's ends left out (min_w < w < max_w).
RECURSIVE ClassifyFromOpen(_, _)
ClassifyFromOpen(w, class_id) ==
    IF class_id > Len(weight_classes) THEN 8
    ELSE IF weight_classes[class_id][1] < w /\ w < weight_classes[class_id][2]
         THEN class_id
    ELSE ClassifyFromOpen(w, class_id + 1)

\* The for-loop over weight_classes.items() from class_id on: the first class
\* whose closed interval holds w; 8 when the loop ends without a match.
RECURSIVE ClassifyFrom(_, _)
ClassifyFrom(w, class_id) ==
    IF class_id > Len(weight_classes) THEN 8
    ELSE IF weight_classes[class_id][1] <= w /\ w <= weight_classes[class_id][2]
         THEN class_id
    ELSE ClassifyFrom(w, class_id + 1)

\* random.randint(1, 8)
RandomWeightClass == 1..8

\* Container._determine_weight_class: weight is <<>> (None) or <<w>>.
DetermineWeightClass(weight) ==
    IF weight = <<>> THEN RandomWeightClass ELSE {ClassifyFrom(weight[1], 1)}

\* Container._determine_priority
DeterminePriority(category) ==
    IF category = "Dangerous" THEN 1
    ELSE IF category = "Reefer" THEN 2
    ELSE IF category = "Out-of-Gauge" THEN 1
    ELSE 3

\* Container.__init__: the containers the constructor can build.
Container(unit_number, iso_type, transporter, weight, port, category) ==
    { [unit_number |-> unit_number, iso_type |-> iso_type,
       transporter |-> transporter, weight |-> weight, port |-> port,
       category |-> category, size |-> s, weight_class |-> wc,
       priority |-> DeterminePriority(category)] :
      s \in DetermineSize(iso_type), wc \in DetermineWeightClass(weight) }

\* ----------------------------------------------------------- YardPosition
\* YardPosition._get_container_length (0 stands for None: a walkway row).
GetContainerLength(row) ==
    IF row % 4 = 0 THEN 0 ELSE IF row % 2 = 0 THEN 12 ELSE 6

\* YardPosition._check_reefer_position
CheckReeferPosition(area, row) ==
    IF area = "M2" THEN TRUE
    ELSE IF area = "Q1" /\ row \in {2, 6, 10} THEN TRUE
    ELSE IF area = "Q2" /\ row \in {2, 6, 10, 12} THEN TRUE
    ELSE FALSE

\* YardPosition.__init__
YardPosition(area, row, column, max_tiers) ==
    [area |-> area, row |-> row, column |-> column, max_tiers |-> max_tiers,
     containers |-> <<>>, available_tiers |-> max_tiers,
     container_length |-> GetContainerLength(row),
     is_reefer_position |-> CheckReeferPosition(area, row)]

\* can_place_container without the length test.
CanPlaceContainerAnyLength(position, container, area_weight_classes) ==
    IF position.available_tiers <= 0 THEN FALSE
    ELSE IF container.weight_class \notin area_weight_classes THEN FALSE
    ELSE IF container.category = "Reefer" /\ ~position.is_reefer_position THEN FALSE
    ELSE TRUE

\* can_place_container without the reefer test.
CanPlaceContainerAnyCategory(position, container, area_weight_classes) ==
    IF position.container_length # container.size THEN FALSE
    ELSE IF position.available_tiers <= 0 THEN FALSE
    ELSE IF container.weight_class \notin area_weight_classes THEN FALSE
    ELSE TRUE

\* can_place_container that refuses a slot's last tier.
CanPlaceContainerBelowTop(position, container, area_weight_classes) ==
    IF position.container_length # container.size THEN FALSE
    ELSE IF position.available_tiers <= 1 THEN FALSE
    ELSE IF container.weight_class \notin area_weight_classes THEN FALSE
    ELSE IF container.category = "Reefer" /\ ~position.is_reefer_position THEN FALSE
    ELSE TRUE

\* YardPosition.can_place_container
CanPlaceContainer(position, container, area_weight_classes) ==
    IF position.container_length # container.size THEN FALSE
    ELSE IF position.available_tiers <= 0 THEN FALSE
    ELSE IF container.weight_class \notin area_weight_classes THEN FALSE
    ELSE IF container.category = "Reefer" /\ ~position.is_reefer_position THEN FALSE
    ELSE TRUE

\* place_container that forgets to count the tier down.
PositionPlaceContainerNoCount(position, container) ==
    IF position.available_tiers <= 0 THEN <<position, FALSE>>
    ELSE << [position EXCEPT !.containers = Append(@, container.unit_number)], TRUE >>

\* YardPosition.place_container: <<the position afterwards, the bool returned>>.
PositionPlaceContainer(position, container) ==
    IF position.available_tiers <= 0 THEN <<position, FALSE>>
    ELSE << [position EXCEPT !.containers = Append(@, container.unit_number),
                             !.available_tiers = @ - 1],
            TRUE >>

\* get_position_code that reports the tiers left instead of the tiers used.
GetPositionCodeTiersLeft(position) ==
    position.area \o ToString(position.row) \o position.column
                  \o ToString(position.available_tiers)

\* YardPosition.get_position_code: f"{area}{row}{column}{tier}"
GetPositionCode(position) ==
    LET tier == IF position.containers # <<>> THEN Len(position.containers) ELSE 1
    IN  position.area \o ToString(position.row) \o position.column \o ToString(tier)

\* --------------------------------------------------------------- YardArea
\* [chr(i) for i in range(65, 86)]
AllColumns ==
    << "A", "B", "C", "D", "E", "F", "G", "H", "I", "J", "K",
       "L", "M", "N", "O", "P", "Q", "R", "S", "T", "U" >>

\* YardArea._initialize_positions over the rows 1..rows: row ascending,
\* column ascending, walkway rows (row % 4 = 0) skipped.
RECURSIVE InitializePositionsIn(_, _, _, _, _)
InitializePositionsIn(name, max_stack_height, row, col, rows) ==
    IF row > rows THEN <<>>
    ELSE IF col > NumCols
         THEN InitializePositionsIn(name, max_stack_height, row + 1, 1, rows)
    ELSE IF row % 4 = 0
         THEN InitializePositionsIn(name, max_stack_height, row, col + 1, rows)
    ELSE <<YardPosition(name, row, AllColumns[col], max_stack_height)>>
         \o InitializePositionsIn(name, max_stack_height, row, col + 1, rows)

\* YardArea._initialize_positions of the yard of NumRows rows.
InitializePositionsFrom(name, max_stack_height, row, col) ==
    InitializePositionsIn(name, max_stack_height, row, col, NumRows)

\* YardArea.__init__
YardArea(name, allowed_weight_classes, max_stack_height) ==
    [name |-> name, allowed_weight_classes |-> allowed_weight_classes,
     max_stack_height |-> max_stack_height,
     positions |-> InitializePositionsFrom(name, max_stack_height, 1, 1)]

\* YardArea.get_available_positions: the indices, in inventory order, of the
\* positions that can take the container.
GetAvailablePositions(area, container) ==
    SelectSeq([p \in 1..Len(area.positions) |-> p],
              LAMBDA p : CanPlaceContainer(area.positions[p], container,
                                           area.allowed_weight_classes))

\* place_container that takes the last available position, not the first.
AreaPlaceContainerLastAvailable(area, container) ==
    LET available_positions == GetAvailablePositions(area, container)
    IN  IF available_positions # <<>>
        THEN LET p == available_positions[Len(available_positions)]
                 placed == PositionPlaceContainer(area.positions[p], container)
             IN  IF placed[2]
                 THEN << [area EXCEPT !.positions[p] = placed[1]],
                         GetPositionCode(placed[1]) >>
                 ELSE <<area, None>>
        ELSE <<area, None>>

\* YardArea.place_container: <<the area afterwards, the position code or None>>.
AreaPlaceContainer(area, container) ==
    LET available_positions == GetAvailablePositions(area, container)
    IN  IF available_positions # <<>>
        THEN LET p == available_positions[1]
                 placed == PositionPlaceContainer(area.positions[p], container)
             IN  IF placed[2]
                 THEN << [area EXCEPT !.positions[p] = placed[1]],
                         GetPositionCode(placed[1]) >>
                 ELSE <<area, None>>
        ELSE <<area, None>>

\* ------------------------------------------- AdvancedYardLayoutOptimizer
\* The keys of self.areas, in the order _initialize_areas inserts them.
AreaNames == << "M1", "M2", "W1", "W2", "Q1", "Q2" >>

AreaNameSet == { AreaNames[n] : n \in 1..Len(AreaNames) }

\* AdvancedYardLayoutOptimizer._initialize_areas
InitializeAreas ==
    [name \in AreaNameSet |->
        CASE name = "M1" -> YardArea("M1", 1..8, 5)
          [] name = "M2" -> YardArea("M2", 1..8, 5)
          [] name = "W1" -> YardArea("W1", 3..8, 4)
          [] name = "W2" -> YardArea("W2", 3..8, 4)
          [] name = "Q1" -> YardArea("Q1", 1..8, 4)
          [] name = "Q2" -> YardArea("Q2", 1..8, 4)]

\* set_area_weight_classes that closes every area the configuration does
\* not name.
SetAreaWeightClassesFromClosingOthers(as, area_configurations, n) ==
    [name \in DOMAIN as |->
        IF \E m \in n..Len(area_configurations) :
               area_configurations[m].area_name = name
        THEN [as[name] EXCEPT !.allowed_weight_classes =
                 area_configurations[CHOOSE m \in n..Len(area_configurations) :
                     area_configurations[m].area_name = name].weight_classes]
        ELSE [as[name] EXCEPT !.allowed_weight_classes = {}]]

\* set_area_weight_classes: area_configurations is the sequence of the
\* dict's items, [area_name, weight_classes]; entries from index n on.
RECURSIVE SetAreaWeightClassesFrom(_, _, _)
SetAreaWeightClassesFrom(as, area_configurations, n) ==
    IF n > Len(area_configurations) THEN as
    ELSE LET item == area_configurations[n]
         IN  SetAreaWeightClassesFrom(
                 IF item.area_name \in DOMAIN as
                 THEN [as EXCEPT ![item.area_name].allowed_weight_classes =
                                     item.weight_classes]
                 ELSE as,
                 area_configurations, n + 1)

\* set_area_weight_classes that leaves every area as it was.
SetAreaWeightClassesIgnored(as, area_configurations) == as

SetAreaWeightClasses(as, area_configurations) ==
    SetAreaWeightClassesFrom(as, area_configurations, 1)

\* assign_weight_classes, one container: the classes it can be given.
AssignWeightClass(container) ==
    IF container.weight # <<>> THEN {ClassifyFrom(container.weight[1], 1)}
    ELSE RandomWeightClass

\* assign_weight_classes: the container lists the loop can leave.
RECURSIVE AssignWeightClasses(_)
AssignWeightClasses(cs) ==
    IF cs = <<>> THEN {<<>>}
    ELSE { <<[cs[1] EXCEPT !.weight_class = wc]>> \o rest :
           wc \in AssignWeightClass(cs[1]),
           rest \in AssignWeightClasses(Tail(cs)) }

\* ------------------------------------------------ dicts kept as sequences
\* "key in map" that looks the key up among the positions, not the keys.
InMapByPosition(map, key) == \E n \in 1..Len(map) : map[n].value.position = ToString(key)

\* A dict is the sequence of its items [key, value] in insertion order.
InMap(map, key) == \E n \in 1..Len(map) : map[n].key = key

\* map[key] = value
MapSet(map, key, value) ==
    IF InMap(map, key)
    THEN [n \in 1..Len(map) |->
            IF map[n].key = key THEN [key |-> key, value |-> value] ELSE map[n]]
    ELSE Append(map, [key |-> key, value |-> value])

\* The map replaced by the other one instead of updated with it.
MapUpdateReplacing(map, other) == other

\* map.update(other)
RECURSIVE MapUpdate(_, _)
MapUpdate(map, other) ==
    IF other = <<>> THEN map
    ELSE MapUpdate(MapSet(map, other[1].key, other[1].value), Tail(other))

\* list.remove(x): the first occurrence goes.
RECURSIVE ListRemove(_, _)
ListRemove(list, x) ==
    IF list = <<>> THEN <<>>
    ELSE IF list[1] = x THEN Tail(list)
    ELSE <<list[1]>> \o ListRemove(Tail(list), x)

\* ------------------------------------------------------------- grouping
\* transporter_groups of optimize_import_layout: items [key, members], the
\* members being indices into the container list, after containers n.. are added.
RECURSIVE TransporterGroupsFrom(_, _, _)
TransporterGroupsFrom(cs, groups, n) ==
    IF n > Len(cs) THEN groups
    ELSE LET t == cs[n].transporter
             with_key == IF \E m \in 1..Len(groups) : groups[m].key = t
                         THEN groups
                         ELSE Append(groups, [key |-> t, members |-> <<>>])
         IN  TransporterGroupsFrom(
                 cs,
                 [m \in 1..Len(with_key) |->
                     IF with_key[m].key = t
                     THEN [with_key[m] EXCEPT !.members = Append(@, n)]
                     ELSE with_key[m]],
                 n + 1)

\* port_groups of optimize_export_layout: items [port, weight_groups], each
\* weight group an item [weight_class, members].
RECURSIVE PortGroupsFrom(_, _, _)
PortGroupsFrom(cs, groups, n) ==
    IF n > Len(cs) THEN groups
    ELSE LET port == cs[n].port
             wc == cs[n].weight_class
             with_port == IF \E m \in 1..Len(groups) : groups[m].port = port
                          THEN groups
                          ELSE Append(groups, [port |-> port, weight_groups |-> <<>>])
             AddTo(wgs) ==
                 LET with_wc == IF \E m \in 1..Len(wgs) : wgs[m].weight_class = wc
                                THEN wgs
                                ELSE Append(wgs, [weight_class |-> wc, members |-> <<>>])
                 IN  [m \in 1..Len(with_wc) |->
                        IF with_wc[m].weight_class = wc
                        THEN [with_wc[m] EXCEPT !.members = Append(@, n)]
                        ELSE with_wc[m]]
         IN  PortGroupsFrom(
                 cs,
                 [m \in 1..Len(with_port) |->
                     IF with_port[m].port = port
                     THEN [with_port[m] EXCEPT !.weight_groups = AddTo(@)]
                     ELSE with_port[m]],
                 n + 1)

\* The nested loops "for port, weight_groups in port_groups.items(): for
\* weight_class, class_containers in weight_groups.items()" visit these
\* groups, in this order.
RECURSIVE ExportGroupOrder(_)
ExportGroupOrder(port_groups) ==
    IF port_groups = <<>> THEN <<>>
    ELSE [m \in 1..Len(port_groups[1].weight_groups) |->
            [port |-> port_groups[1].port,
             weight_class |-> port_groups[1].weight_groups[m].weight_class,
             members |-> port_groups[1].weight_groups[m].members]]
         \o ExportGroupOrder(Tail(port_groups))

\* suitable_areas with any(...) for all(...).
ImportSuitableAreasAny(as, cs, members) ==
    SelectSeq(AreaNames,
              LAMBDA area_name :
                  \E m \in 1..Len(members) :
                      cs[members[m]].weight_class \in as[area_name].allowed_weight_classes)

\* suitable_areas of optimize_import_layout: the areas, in declaration order,
\* whose allowed classes hold the class of every container of the group.
ImportSuitableAreas(as, cs, members) ==
    SelectSeq(AreaNames,
              LAMBDA area_name :
                  \A m \in 1..Len(members) :
                      cs[members[m]].weight_class \in as[area_name].allowed_weight_classes)

\* suitable_areas of optimize_export_layout, last area first.
ExportSuitableAreasReversed(as, weight_class) ==
    LET forward == SelectSeq(AreaNames,
                             LAMBDA area_name :
                                 weight_class \in as[area_name].allowed_weight_classes)
    IN  [n \in 1..Len(forward) |-> forward[Len(forward) + 1 - n]]

\* suitable_areas of optimize_export_layout
ExportSuitableAreas(as, weight_class) ==
    SelectSeq(AreaNames,
              LAMBDA area_name : weight_class \in as[area_name].allowed_weight_classes)

\* The 80% test with > for >=.
MeetsThresholdStrict(area_placed_count, group_size) ==
    5 * area_placed_count > 4 * group_size

\* The test asking for more placements than the group has containers.
MeetsThresholdAbove(area_placed_count, group_size) ==
    area_placed_count > group_size

\* area_placed_count >= len(trans_containers) * 0.8
MeetsThreshold(area_placed_count, group_size) ==
    5 * area_placed_count >= 4 * group_size

\* The placement records the three placing sites build.
ImportRecord(container, position_code, area_name, transporter) ==
    [position |-> position_code, area |-> area_name, transporter |-> transporter,
     weight_class |-> container.weight_class, size |-> container.size,
     category |-> container.category, iso_type |-> container.iso_type]

ExportRecord(container, position_code, area_name, port, weight_class) ==
    [position |-> position_code, area |-> area_name, port |-> port,
     weight_class |-> weight_class, size |-> container.size,
     category |-> container.category, iso_type |-> container.iso_type]

AnywhereRecord(container, position_code, area_name) ==
    [position |-> position_code, area |-> area_name,
     transporter |-> container.transporter, port |-> container.port,
     weight_class |-> container.weight_class, size |-> container.size,
     category |-> container.category, iso_type |-> container.iso_type]

\* _place_container_anywhere, from area n of the declaration order on:
\* [areas, placement_map, area_usage, placed, position_code] afterwards.
RECURSIVE PlaceContainerAnywhereFrom(_, _, _, _, _)
PlaceContainerAnywhereFrom(as, container, map, usage, n) ==
    IF n > Len(AreaNames)
    THEN [areas |-> as, placement_map |-> map, area_usage |-> usage,
          placed |-> FALSE, position_code |-> None]
    ELSE LET area_name == AreaNames[n]
         IN  IF container.weight_class \in as[area_name].allowed_weight_classes
             THEN LET r == AreaPlaceContainer(as[area_name], container)
                  IN  IF r[2] # None
                      THEN [areas |-> [as EXCEPT ![area_name] = r[1]],
                            placement_map |->
                                MapSet(map, container.unit_number,
                                       AnywhereRecord(container, r[2], area_name)),
                            area_usage |-> [usage EXCEPT ![area_name] = @ + 1],
                            placed |-> TRUE, position_code |-> r[2]]
                      ELSE PlaceContainerAnywhereFrom(as, container, map, usage, n + 1)
             ELSE PlaceContainerAnywhereFrom(as, container, map, usage, n + 1)

\* _place_container_anywhere that never looks at the first area.
PlaceContainerAnywhereSkipFirst(as, container, map, usage) ==
    PlaceContainerAnywhereFrom(as, container, map, usage, 2)

\* _place_container_anywhere that does not count the placement for the area.
PlaceContainerAnywhereUncounted(as, container, map, usage) ==
    [PlaceContainerAnywhereFrom(as, container, map, usage, 1) EXCEPT !.area_usage = usage]

PlaceContainerAnywhere(as, container, map, usage) ==
    PlaceContainerAnywhereFrom(as, container, map, usage, 1)

\* The proposal loop keeping the yard of the proposal before.
ProposalAreasKept(previous) == previous

\* The proposal loop resetting the permitted classes but not the slots.
ProposalAreasSlotsKept(previous) ==
    [name \in AreaNameSet |->
        [InitializeAreas[name] EXCEPT !.positions = previous[name].positions]]

\* self.areas = self._initialize_areas() in generate_multiple_proposals: the
\* yard of the proposal before is dropped for a fresh one.
ProposalAreas(previous) == InitializeAreas

\* A quotient num / den of non-negative integers rounded to the nearest
\* integer, a tie going to the even neighbour.
RoundHalfEven(num, den) ==
    LET q == num \div den
        r == num % den
    IN  IF 2 * r < den THEN q
        ELSE IF 2 * r > den THEN q + 1
        ELSE IF q % 2 = 0 THEN q ELSE q + 1

\* f"{x:.1f}%" for x = num / den: one decimal place, then the percent sign.
FormatPercent(num, den) ==
    LET tenths == RoundHalfEven(10 * num, den)
    IN  ToString(tenths \div 10) \o "." \o ToString(tenths % 10) \o "%"

\* The loop of _calculate_grouping_efficiency from pair n on: grouped_pairs.
RECURSIVE GroupedPairsFrom(_, _, _)
GroupedPairsFrom(placements, op, n) ==
    IF n > Len(placements) - 1 THEN 0
    ELSE LET current == placements[n]
             next_place == placements[n + 1]
             grouped ==
                 IF op = "IMPORT"
                 THEN /\ current.transporter = next_place.transporter
                      /\ current.area = next_place.area
                 ELSE /\ current.port = next_place.port
                      /\ current.area = next_place.area
                      /\ current.weight_class - next_place.weight_class <= 1
                      /\ next_place.weight_class - current.weight_class <= 1
         IN  (IF grouped THEN 1 ELSE 0) + GroupedPairsFrom(placements, op, n + 1)

\* _calculate_grouping_efficiency dividing by the records, not the pairs.
CalculateGroupingEfficiencyByRecords(map, op) ==
    IF map = <<>> THEN [num |-> 0, den |-> 1]
    ELSE [num |-> GroupedPairsFrom([n \in 1..Len(map) |-> map[n].value], op, 1) * 100,
          den |-> Len(map)]

\* _calculate_grouping_efficiency: the float returned, as the quotient
\* num / den.
CalculateGroupingEfficiency(map, op) ==
    IF map = <<>> THEN [num |-> 0, den |-> 1]
    ELSE LET placements == [n \in 1..Len(map) |-> map[n].value]
             grouped_pairs == GroupedPairsFrom(placements, op, 1)
             total_pairs == Len(placements) - 1
         IN  IF total_pairs > 0
             THEN [num |-> grouped_pairs * 100, den |-> total_pairs]
             ELSE [num |-> 0, den |-> 1]

\* _compile_result. The division placed_count / total_containers raises
\* ZeroDivisionError on an empty container list: fault is TRUE then, and the
\* efficiency, the quotient num / den, is not computed.
CompileResult(as, cs, map, usage, op) ==
    LET total_containers == Len(cs)
        placed_count == Len(map)
        RECURSIVE Sum(_, _)
        Sum(f, n) == IF n = 0 THEN 0 ELSE f[AreaNames[n]] + Sum(f, n - 1)
        total_positions == Sum([a \in AreaNameSet |-> Len(as[a].positions)], Len(AreaNames))
        used_positions == Sum(usage, Len(AreaNames))
        space_utilization == IF total_positions > 0
                             THEN [num |-> used_positions * 100, den |-> total_positions]
                             ELSE [num |-> 0, den |-> 1]
        grouping_efficiency == CalculateGroupingEfficiency(map, op)
        used_names == SelectSeq(AreaNames, LAMBDA a : usage[a] > 0)
        area_details ==
            [n \in 1..Len(used_names) |->
                [key |-> used_names[n],
                 value |-> [containers_placed |-> usage[used_names[n]],
                            utilization |->
                                FormatPercent(usage[used_names[n]] * 100,
                                              Len(as[used_names[n]].positions)),
                            total_area_positions |-> Len(as[used_names[n]].positions),
                            weight_classes |-> as[used_names[n]].allowed_weight_classes]]]
    IN  [fault |-> total_containers = 0,
         placement_map |-> map,
         efficiency |-> IF total_containers = 0 THEN None
                        ELSE [num |-> placed_count * 100, den |-> total_containers],
         space_utilization |-> FormatPercent(space_utilization.num, space_utilization.den),
         grouping_efficiency |-> FormatPercent(grouping_efficiency.num,
                                               grouping_efficiency.den),
         area_usage |-> area_details,
         used_positions |-> used_positions,
         total_positions |-> total_positions,
         total_placed |-> placed_count,
         total_containers |-> total_containers,
         details |-> op \o " optimization completed"]

\* ------------------------------------------------------------------ state
VARIABLES
    given,                \* the rows the caller built the container list from
    containers,           \* the container list handed to the optimizer
    operation_type,       \* "IMPORT", "EXPORT", or what auto-detection returned
    area_configurations,  \* the configuration dict, as its items
    num_proposals,        \* how many proposals are asked for
    areas,                \* self.areas: area name -> YardArea
    placement_map,        \* the run's placement map, as its items
    area_usage,           \* area name -> containers counted for it
    placed_count,
    groups,               \* the run's groups, in iteration order
    pc,                   \* where the run stands
    g,                    \* the group being handled (index into groups)
    suitable_areas,       \* the candidate areas of group g
    s,                    \* the candidate area being tried
    loop_list,            \* the list the innermost for-loop walks
    k,                    \* its next element
    temp_placements,      \* import: the placements made in the area tried
    area_placed_count,    \* import: how many
    temp_placed,          \* export: placements made in the area tried
    group_placed,         \* import: the group was committed
    position_code,        \* what the last place_container call returned
    result,               \* the last _compile_result
    proposals,            \* the proposals built so far
    i,                    \* proposals loop counter
    import_placements,    \* st.session_state.import_placements, as its items
    export_placements     \* st.session_state.export_placements, as its items

vars == << given, containers, operation_type, area_configurations, num_proposals, areas,
           placement_map, area_usage, placed_count, groups, pc, g, suitable_areas,
           s, loop_list, k, temp_placements, area_placed_count, temp_placed,
           group_placed, position_code, result, proposals, i,
           import_placements, export_placements >>

\* The two-tab planner's session state.
session == << import_placements, export_placements >>

inputs == << given, operation_type, area_configurations, num_proposals >>

\* ----------------------------------------------------------------- inputs
\* The rows of the uploaded tables the container lists are built from:
\* the arguments of Container(...).
Kinds ==
    { [iso_type |-> "22G1", transporter |-> "A", weight |-> <<4000>>, port |-> "X",
       category |-> "Standard"],
      [iso_type |-> "45R1", transporter |-> "B", weight |-> <<4000>>, port |-> "X",
       category |-> "Reefer"],
      [iso_type |-> "45G1", transporter |-> "B", weight |-> <<1000>>, port |-> "Y",
       category |-> "Standard"] }

\* A row with neither a weight nor a known ISO type.
UnknownKind ==
    [iso_type |-> "L5G1", transporter |-> "A", weight |-> <<>>, port |-> "Y",
     category |-> "Standard"]

ContainerOfKind(unit_number, kind) ==
    Container(unit_number, kind.iso_type, kind.transporter, kind.weight,
              kind.port, kind.category)

\* The lists that extend the lists of `firsts` by up to n rows over Kinds,
\* the rows numbered on from the list's length.
RECURSIVE ExtendLists(_, _)
ExtendLists(firsts, n) ==
    IF n = 0 THEN firsts
    ELSE LET shorter == ExtendLists(firsts, n - 1)
         IN  shorter \cup
             UNION { { Append(l, c) : c \in ContainerOfKind(Len(l) + 1, kd) } :
                     l \in shorter, kd \in Kinds }

\* The container lists handed to the optimizer, unit numbers 1..n: every list
\* of up to MaxContainers rows over Kinds, and the lists that open with an
\* unknown row followed by up to MaxAfterUnknown rows over Kinds.
ContainerLists ==
    ExtendLists({<<>>}, MaxContainers)
    \cup ExtendLists({ <<c>> : c \in ContainerOfKind(1, UnknownKind) }, MaxAfterUnknown)

\* The configurations handed to the optimizer: none; one that closes M1 and
\* M2, narrows Q1 and Q2 and names an area the yard does not have; and one
\* that closes M2, Q1 and Q2, so that no reefer slot is left open.
Configurations ==
    { <<>>,
      << [area_name |-> "M1", weight_classes |-> {}],
         [area_name |-> "M2", weight_classes |-> {}],
         [area_name |-> "Q1", weight_classes |-> {8}],
         [area_name |-> "Q2", weight_classes |-> {8}],
         [area_name |-> "Z9", weight_classes |-> 1..8] >>,
      << [area_name |-> "M2", weight_classes |-> {}],
         [area_name |-> "Q1", weight_classes |-> {}],
         [area_name |-> "Q2", weight_classes |-> {}] >> }

NoResult == [fault |-> FALSE]

\* The rows the caller built the containers from: the arguments of
\* Container(...).
RowsOf(cs) ==
    [n \in 1..Len(cs) |->
        [unit_number |-> cs[n].unit_number, iso_type |-> cs[n].iso_type,
         transporter |-> cs[n].transporter, weight |-> cs[n].weight,
         port |-> cs[n].port, category |-> cs[n].category]]

Init ==
    /\ containers \in ContainerLists
    /\ given = RowsOf(containers)
    /\ operation_type \in {"IMPORT", "EXPORT"}
    /\ area_configurations \in Configurations
    /\ num_proposals \in 1..MaxProposals
    /\ areas = InitializeAreas
    /\ placement_map = <<>>
    /\ area_usage = [a \in AreaNameSet |-> 0]
    /\ placed_count = 0
    /\ groups = <<>>
    /\ pc = "loop"
    /\ g = 1
    /\ suitable_areas = <<>>
    /\ s = 1
    /\ loop_list = <<>>
    /\ k = 1
    /\ temp_placements = <<>>
    /\ area_placed_count = 0
    /\ temp_placed = 0
    /\ group_placed = FALSE
    /\ position_code = None
    /\ result = NoResult
    /\ proposals = <<>>
    /\ i = 0
    /\ import_placements = <<>>
    /\ export_placements = <<>>

\* The optimizer generate_multiple_proposals calls for an operation type:
\* optimize_import_layout for 'IMPORT', optimize_export_layout for any other
\* value; each hands its own name to _compile_result.
Strategy(op) == IF op = "IMPORT" THEN "IMPORT" ELSE "EXPORT"

\* ---------------------------------------------- generate_multiple_proposals
\* One pass of "for i in range(num_proposals)" up to the grouping of the
\* optimizer it calls: a fresh yard (self.areas = self._initialize_areas()),
\* then set_area_weight_classes, assign_weight_classes, the empty placement
\* map and usage counters, and the groups.
StartRun(list) ==
    /\ \E cs \in AssignWeightClasses(list) :
        /\ containers' = cs
        /\ groups' = IF operation_type = "IMPORT"
                     THEN TransporterGroupsFrom(cs, <<>>, 1)
                     ELSE ExportGroupOrder(PortGroupsFrom(cs, <<>>, 1))
    /\ areas' = SetAreaWeightClasses(ProposalAreas(areas), area_configurations)
    /\ placement_map' = <<>>
    /\ area_usage' = [a \in AreaNameSet |-> 0]
    /\ placed_count' = 0
    /\ pc' = "group"
    /\ g' = 1
    /\ suitable_areas' = <<>>
    /\ s' = 1
    /\ loop_list' = <<>>
    /\ k' = 1
    /\ temp_placements' = <<>>
    /\ area_placed_count' = 0
    /\ temp_placed' = 0
    /\ group_placed' = FALSE
    /\ position_code' = None
    /\ UNCHANGED << session, inputs, result, proposals, i >>

StartProposal ==
    /\ pc = "loop"
    /\ i < num_proposals
    /\ StartRun(containers)

\* --------------------------------------------------- optimize_import_layout
\* "for transporter, trans_containers in transporter_groups.items()": the
\* next group's suitable areas; the first of them is entered, or the
\* fallback when there is none.
ImportGroup ==
    /\ pc = "group" /\ operation_type = "IMPORT" /\ g <= Len(groups)
    /\ LET suitable == ImportSuitableAreas(areas, containers, groups[g].members)
       IN  /\ suitable_areas' = suitable
           /\ pc' = IF suitable = <<>> THEN "fallback" ELSE "place"
    /\ group_placed' = FALSE
    /\ s' = 1
    /\ loop_list' = groups[g].members
    /\ k' = 1
    /\ temp_placements' = <<>>
    /\ area_placed_count' = 0
    /\ UNCHANGED << session, containers, inputs, areas, placement_map, area_usage, placed_count,
                    groups, g, temp_placed, position_code, result, proposals, i >>

\* One pass of "for container in trans_containers" in area suitable_areas[s].
ImportPlace ==
    /\ pc = "place" /\ operation_type = "IMPORT" /\ k <= Len(loop_list)
    /\ LET container == containers[loop_list[k]]
           area_name == suitable_areas[s]
           r == AreaPlaceContainer(areas[area_name], container)
       IN  IF ~InMap(placement_map, container.unit_number)
           THEN /\ areas' = [areas EXCEPT ![area_name] = r[1]]
                /\ position_code' = r[2]
                /\ IF r[2] # None
                   THEN /\ temp_placements' =
                              MapSet(temp_placements, container.unit_number,
                                     ImportRecord(container, r[2], area_name, groups[g].key))
                        /\ area_placed_count' = area_placed_count + 1
                   ELSE UNCHANGED << temp_placements, area_placed_count >>
           ELSE UNCHANGED << areas, position_code, temp_placements, area_placed_count >>
    /\ k' = k + 1
    /\ UNCHANGED << session, containers, inputs, placement_map, area_usage, placed_count, groups,
                    pc, g, suitable_areas, s, loop_list, temp_placed, group_placed,
                    result, proposals, i >>

\* After the loop over the group in one area: the 80% test. The group is
\* committed and the next group follows; or the next suitable area is tried;
\* or, with no area left, the group goes to the fallback.
ImportCheck ==
    /\ pc = "place" /\ operation_type = "IMPORT" /\ k > Len(loop_list)
    /\ IF MeetsThreshold(area_placed_count, Len(groups[g].members))
       THEN /\ placement_map' = MapUpdate(placement_map, temp_placements)
            /\ placed_count' = placed_count + area_placed_count
            /\ area_usage' = [area_usage EXCEPT ![suitable_areas[s]] = @ + area_placed_count]
            /\ group_placed' = TRUE
            /\ g' = g + 1
            /\ pc' = "group"
            /\ UNCHANGED << s, k, temp_placements, area_placed_count >>
       ELSE /\ IF s < Len(suitable_areas)
               THEN /\ s' = s + 1
                    /\ temp_placements' = <<>>
                    /\ area_placed_count' = 0
                    /\ pc' = "place"
               ELSE /\ pc' = "fallback"
                    /\ UNCHANGED << s, temp_placements, area_placed_count >>
            /\ k' = 1
            /\ UNCHANGED << placement_map, placed_count, area_usage, group_placed, g >>
    /\ UNCHANGED << session, containers, inputs, areas, groups, suitable_areas, loop_list,
                    temp_placed, position_code, result, proposals, i >>

\* "if not group_placed": one pass of the loop that places the group's
\* containers one by one with _place_container_anywhere.
ImportFallback ==
    /\ pc = "fallback" /\ operation_type = "IMPORT" /\ k <= Len(loop_list)
    /\ LET container == containers[loop_list[k]]
           r == PlaceContainerAnywhere(areas, container, placement_map, area_usage)
       IN  IF ~InMap(placement_map, container.unit_number)
           THEN /\ areas' = r.areas
                /\ placement_map' = r.placement_map
                /\ area_usage' = r.area_usage
                /\ position_code' = r.position_code
                /\ placed_count' = IF r.placed THEN placed_count + 1 ELSE placed_count
           ELSE UNCHANGED << areas, placement_map, area_usage, position_code, placed_count >>
    /\ k' = k + 1
    /\ UNCHANGED << session, containers, inputs, groups, pc, g, suitable_areas, s, loop_list,
                    temp_placements, area_placed_count, temp_placed, group_placed,
                    result, proposals, i >>

ImportFallbackDone ==
    /\ pc = "fallback" /\ operation_type = "IMPORT" /\ k > Len(loop_list)
    /\ g' = g + 1
    /\ pc' = "group"
    /\ UNCHANGED << session, containers, inputs, areas, placement_map, area_usage, placed_count,
                    groups, suitable_areas, s, loop_list, k, temp_placements,
                    area_placed_count, temp_placed, group_placed, position_code,
                    result, proposals, i >>

\* The groups are exhausted: _compile_result follows.
ImportDone ==
    /\ pc = "group" /\ operation_type = "IMPORT" /\ g > Len(groups)
    /\ pc' = "compile"
    /\ UNCHANGED << session, containers, inputs, areas, placement_map, area_usage, placed_count,
                    groups, g, suitable_areas, s, loop_list, k, temp_placements,
                    area_placed_count, temp_placed, group_placed, position_code,
                    result, proposals, i >>

\* --------------------------------------------------- optimize_export_layout
\* The next (port, weight class) group and its suitable areas.
ExportGroup ==
    /\ pc = "group" /\ Strategy(operation_type) = "EXPORT" /\ g <= Len(groups)
    /\ suitable_areas' = ExportSuitableAreas(areas, groups[g].weight_class)
    /\ s' = 1
    /\ pc' = "area"
    /\ UNCHANGED << session, containers, inputs, areas, placement_map, area_usage, placed_count,
                    groups, g, loop_list, k, temp_placements, area_placed_count,
                    temp_placed, group_placed, position_code, result, proposals, i >>

\* "for area_name in suitable_areas": the loop ends when the areas are
\* exhausted or class_containers is empty (break); else the area is entered
\* with a copy of class_containers to walk.
ExportArea ==
    /\ pc = "area" /\ Strategy(operation_type) = "EXPORT"
    /\ IF s > Len(suitable_areas) \/ groups[g].members = <<>>
       THEN /\ g' = g + 1
            /\ pc' = "group"
            /\ UNCHANGED << temp_placed, loop_list, k >>
       ELSE /\ temp_placed' = 0
            /\ loop_list' = groups[g].members
            /\ k' = 1
            /\ pc' = "place"
            /\ g' = g
    /\ UNCHANGED << session, containers, inputs, areas, placement_map, area_usage, placed_count,
                    groups, suitable_areas, s, temp_placements, area_placed_count,
                    group_placed, position_code, result, proposals, i >>

\* One pass of "for container in class_containers[:]" in area suitable_areas[s].
ExportPlace ==
    /\ pc = "place" /\ Strategy(operation_type) = "EXPORT" /\ k <= Len(loop_list)
    /\ LET container == containers[loop_list[k]]
           area_name == suitable_areas[s]
           r == AreaPlaceContainer(areas[area_name], container)
       IN  IF ~InMap(placement_map, container.unit_number)
           THEN /\ areas' = [areas EXCEPT ![area_name] = r[1]]
                /\ position_code' = r[2]
                /\ IF r[2] # None
                   THEN /\ placement_map' =
                              MapSet(placement_map, container.unit_number,
                                     ExportRecord(container, r[2], area_name,
                                                  groups[g].port, groups[g].weight_class))
                        /\ placed_count' = placed_count + 1
                        /\ area_usage' = [area_usage EXCEPT ![area_name] = @ + 1]
                        /\ temp_placed' = temp_placed + 1
                        /\ groups' = [groups EXCEPT
                                         ![g].members = ListRemove(@, loop_list[k])]
                   ELSE UNCHANGED << placement_map, placed_count, area_usage,
                                     temp_placed, groups >>
           ELSE UNCHANGED << areas, position_code, placement_map, placed_count,
                             area_usage, temp_placed, groups >>
    /\ k' = k + 1
    /\ UNCHANGED << session, containers, inputs, pc, g, suitable_areas, s, loop_list,
                    temp_placements, area_placed_count, group_placed, result,
                    proposals, i >>

ExportAreaDone ==
    /\ pc = "place" /\ Strategy(operation_type) = "EXPORT" /\ k > Len(loop_list)
    /\ s' = s + 1
    /\ pc' = "area"
    /\ UNCHANGED << session, containers, inputs, areas, placement_map, area_usage, placed_count,
                    groups, g, suitable_areas, loop_list, k, temp_placements,
                    area_placed_count, temp_placed, group_placed, position_code,
                    result, proposals, i >>

\* remaining_containers = [c for c in containers if c.unit_number not in placement_map]
RemainingContainers(cs, map) ==
    SelectSeq([n \in 1..Len(cs) |-> n], LAMBDA n : ~InMap(map, cs[n].unit_number))

ExportGroupsDone ==
    /\ pc = "group" /\ Strategy(operation_type) = "EXPORT" /\ g > Len(groups)
    /\ loop_list' = RemainingContainers(containers, placement_map)
    /\ k' = 1
    /\ pc' = "remaining"
    /\ UNCHANGED << session, containers, inputs, areas, placement_map, area_usage, placed_count,
                    groups, g, suitable_areas, s, temp_placements, area_placed_count,
                    temp_placed, group_placed, position_code, result, proposals, i >>

\* One pass of "for container in remaining_containers".
ExportRemaining ==
    /\ pc = "remaining" /\ k <= Len(loop_list)
    /\ LET container == containers[loop_list[k]]
           r == PlaceContainerAnywhere(areas, container, placement_map, area_usage)
       IN  /\ areas' = r.areas
           /\ placement_map' = r.placement_map
           /\ area_usage' = r.area_usage
           /\ position_code' = r.position_code
           /\ placed_count' = IF r.placed THEN placed_count + 1 ELSE placed_count
    /\ k' = k + 1
    /\ UNCHANGED << session, containers, inputs, groups, pc, g, suitable_areas, s, loop_list,
                    temp_placements, area_placed_count, temp_placed, group_placed,
                    result, proposals, i >>

ExportDone ==
    /\ pc = "remaining" /\ k > Len(loop_list)
    /\ pc' = "compile"
    /\ UNCHANGED << session, containers, inputs, areas, placement_map, area_usage, placed_count,
                    groups, g, suitable_areas, s, loop_list, k, temp_placements,
                    area_placed_count, temp_placed, group_placed, position_code,
                    result, proposals, i >>

\* _compile_result and the proposal built from it (its timestamp, the wall
\* clock's reading, is left out); a fault in _compile_result leaves
\* generate_multiple_proposals by the exception.
Compile ==
    /\ pc = "compile"
    /\ LET r == CompileResult(areas, containers, placement_map, area_usage,
                            Strategy(operation_type))
       IN  IF r.fault
           THEN /\ pc' = "fault"
                /\ UNCHANGED << result, proposals, i >>
           ELSE /\ result' = r
                /\ proposals' = Append(proposals,
                                       [id |-> i + 1,
                                        strategy |-> "Proposal " \o ToString(i + 1),
                                        score |-> RoundHalfEven(r.efficiency.num,
                                                                r.efficiency.den),
                                        space_utilization |-> r.space_utilization,
                                        grouping_efficiency |-> r.grouping_efficiency,
                                        details |-> r.details,
                                        placement_map |-> r.placement_map,
                                        area_usage |-> r.area_usage,
                                        containers_placed |-> r.total_placed,
                                        total_containers |-> r.total_containers])
                /\ i' = i + 1
                /\ pc' = "loop"
    /\ UNCHANGED << session, containers, inputs, areas, placement_map, area_usage, placed_count,
                    groups, g, suitable_areas, s, loop_list, k, temp_placements,
                    area_placed_count, temp_placed, group_placed, position_code >>

Next ==
    \/ StartProposal
    \/ ImportGroup \/ ImportPlace \/ ImportCheck \/ ImportFallback
    \/ ImportFallbackDone \/ ImportDone
    \/ ExportGroup \/ ExportArea \/ ExportPlace \/ ExportAreaDone
    \/ ExportGroupsDone \/ ExportRemaining \/ ExportDone
    \/ Compile

Spec == Init /\ [][Next]_vars

\* ----------------------------------------------------- classification alone
\* A container is constructed from a row with any weight up to MaxWeight, or
\* none, and assign_weight_classes is then run on it.
InitClassify ==
    /\ containers = <<>>
    /\ given = RowsOf(containers)
    /\ operation_type = "EXPORT"
    /\ area_configurations = <<>>
    /\ num_proposals = 0
    /\ areas = InitializeAreas
    /\ placement_map = <<>>
    /\ area_usage = [a \in AreaNameSet |-> 0]
    /\ placed_count = 0
    /\ groups = <<>>
    /\ pc = "construct"
    /\ g = 1
    /\ suitable_areas = <<>>
    /\ s = 1
    /\ loop_list = <<>>
    /\ k = 1
    /\ temp_placements = <<>>
    /\ area_placed_count = 0
    /\ temp_placed = 0
    /\ group_placed = FALSE
    /\ position_code = None
    /\ result = NoResult
    /\ proposals = <<>>
    /\ i = 0
    /\ import_placements = <<>>
    /\ export_placements = <<>>

Construct ==
    /\ pc = "construct"
    /\ \E weight \in {<<>>} \cup { <<w>> : w \in 0..MaxWeight } :
         \E c \in Container(1, "22G1", None, weight, "X", "Standard") :
             containers' = <<c>>
    /\ pc' = "constructed"
    /\ UNCHANGED << session, inputs, areas, placement_map, area_usage, placed_count, groups, g,
                    suitable_areas, s, loop_list, k, temp_placements,
                    area_placed_count, temp_placed, group_placed, position_code,
                    result, proposals, i >>

Assign ==
    /\ pc = "constructed"
    /\ containers' \in AssignWeightClasses(containers)
    /\ pc' = "assigned"
    /\ UNCHANGED << session, inputs, areas, placement_map, area_usage, placed_count, groups, g,
                    suitable_areas, s, loop_list, k, temp_placements,
                    area_placed_count, temp_placed, group_placed, position_code,
                    result, proposals, i >>

NextClassify == Construct \/ Assign

SpecClassify == InitClassify /\ [][NextClassify]_vars

\* ------------------------------------------------- the inbound strategy alone
\* optimize_import_layout called once on a list of ten Standard containers of
\* two carriers, six of one and four of the other, one carrier after the
\* other. Within a carrier the 6 m containers come first and carrier A's
\* weigh 40 t, carrier B's 10 t; the first row may come without a weight.
InboundCarriers ==
    { << "A", "A", "A", "A", "A", "A", "B", "B", "B", "B" >>,
      << "B", "B", "B", "B", "A", "A", "A", "A", "A", "A" >> }

InboundRow(carriers, n, short_a, short_b, weighted) ==
    LET before == Cardinality({ m \in 1..(n - 1) : carriers[m] = carriers[n] })
        short == IF carriers[n] = "A" THEN short_a ELSE short_b
    IN  [iso_type |-> IF before < short THEN "22G1" ELSE "45G1",
         transporter |-> carriers[n],
         weight |-> IF n = 1 /\ ~weighted THEN <<>>
                    ELSE IF carriers[n] = "A" THEN <<4000>> ELSE <<1000>>,
         port |-> None,
         category |-> "Standard"]

InboundListsOf(carriers) ==
    LET CountOf(t) == Cardinality({ n \in 1..Len(carriers) : carriers[n] = t })
    IN  UNION { LET rows == [n \in 1..Len(carriers) |->
                                InboundRow(carriers, n, short_a, short_b, weighted)]
                    RECURSIVE Built(_)
                    Built(n) ==
                        IF n = 0 THEN {<<>>}
                        ELSE { Append(l, c) : l \in Built(n - 1),
                                              c \in ContainerOfKind(n, rows[n]) }
                IN  Built(Len(carriers)) :
                short_a \in 0..CountOf("A"), short_b \in 0..CountOf("B"),
                weighted \in BOOLEAN }

InboundLists == UNION { InboundListsOf(carriers) : carriers \in InboundCarriers }

\* The configurations of the inbound runs: none; and M1 as the one open zone.
InboundConfigurations ==
    { <<>>,
      << [area_name |-> "M2", weight_classes |-> {}],
         [area_name |-> "W1", weight_classes |-> {}],
         [area_name |-> "W2", weight_classes |-> {}],
         [area_name |-> "Q1", weight_classes |-> {}],
         [area_name |-> "Q2", weight_classes |-> {}] >> }

InitInbound ==
    /\ containers \in InboundLists
    /\ given = RowsOf(containers)
    /\ operation_type = "IMPORT"
    /\ area_configurations \in InboundConfigurations
    /\ num_proposals = 1
    /\ areas = InitializeAreas
    /\ placement_map = <<>>
    /\ area_usage = [a \in AreaNameSet |-> 0]
    /\ placed_count = 0
    /\ groups = <<>>
    /\ pc = "loop"
    /\ g = 1
    /\ suitable_areas = <<>>
    /\ s = 1
    /\ loop_list = <<>>
    /\ k = 1
    /\ temp_placements = <<>>
    /\ area_placed_count = 0
    /\ temp_placed = 0
    /\ group_placed = FALSE
    /\ position_code = None
    /\ result = NoResult
    /\ proposals = <<>>
    /\ i = 0
    /\ import_placements = <<>>
    /\ export_placements = <<>>

NextInbound ==
    \/ StartProposal
    \/ ImportGroup \/ ImportPlace \/ ImportCheck \/ ImportFallback
    \/ ImportFallbackDone \/ ImportDone
    \/ Compile

SpecInbound == InitInbound /\ [][NextInbound]_vars

\* ------------------------------------------------ the outbound strategy alone
\* optimize_export_layout called on a list of 6 m Standard containers for two
\* ports, and then once more on the same list without the containers whose
\* weight class no area is configured to allow.
OutboundKinds ==
    { [iso_type |-> "22G1", transporter |-> None, weight |-> <<4000>>, port |-> "X",
       category |-> "Standard"],
      [iso_type |-> "22G1", transporter |-> None, weight |-> <<4000>>, port |-> "Y",
       category |-> "Standard"],
      [iso_type |-> "22G1", transporter |-> None, weight |-> <<1000>>, port |-> "Y",
       category |-> "Standard"] }

\* The lists of up to n rows over OutboundKinds, unit numbers 1..n.
RECURSIVE OutboundListsUpTo(_)
OutboundListsUpTo(n) ==
    IF n = 0 THEN {<<>>}
    ELSE LET shorter == OutboundListsUpTo(n - 1)
         IN  shorter \cup
             UNION { { Append(l, c) : c \in ContainerOfKind(Len(l) + 1, kd) } :
                     l \in shorter, kd \in OutboundKinds }

OutboundLists == OutboundListsUpTo(MaxContainers)

\* The configurations of the outbound runs: none; one under which no area
\* allows class 1; one under which no area allows class 8; and one that
\* leaves W1 as the one open zone.
OutboundConfigurations ==
    { <<>>,
      << [area_name |-> "M1", weight_classes |-> {}],
         [area_name |-> "M2", weight_classes |-> {}],
         [area_name |-> "Q1", weight_classes |-> {8}],
         [area_name |-> "Q2", weight_classes |-> {8}] >>,
      << [area_name |-> "M1", weight_classes |-> 1..7],
         [area_name |-> "M2", weight_classes |-> 1..7],
         [area_name |-> "W1", weight_classes |-> 3..7],
         [area_name |-> "W2", weight_classes |-> 3..7],
         [area_name |-> "Q1", weight_classes |-> 1..7],
         [area_name |-> "Q2", weight_classes |-> 1..7] >>,
      << [area_name |-> "M1", weight_classes |-> {}],
         [area_name |-> "M2", weight_classes |-> {}],
         [area_name |-> "W2", weight_classes |-> {}],
         [area_name |-> "Q1", weight_classes |-> {}],
         [area_name |-> "Q2", weight_classes |-> {}] >> }

InitOutbound ==
    /\ containers \in OutboundLists
    /\ given = RowsOf(containers)
    /\ operation_type = "EXPORT"
    /\ area_configurations \in OutboundConfigurations
    /\ num_proposals = 2
    /\ areas = InitializeAreas
    /\ placement_map = <<>>
    /\ area_usage = [a \in AreaNameSet |-> 0]
    /\ placed_count = 0
    /\ groups = <<>>
    /\ pc = "loop"
    /\ g = 1
    /\ suitable_areas = <<>>
    /\ s = 1
    /\ loop_list = <<>>
    /\ k = 1
    /\ temp_placements = <<>>
    /\ area_placed_count = 0
    /\ temp_placed = 0
    /\ group_placed = FALSE
    /\ position_code = None
    /\ result = NoResult
    /\ proposals = <<>>
    /\ i = 0
    /\ import_placements = <<>>
    /\ export_placements = <<>>

\* The first call: the whole list.
OutboundWhole ==
    /\ i = 0
    /\ StartProposal

\* The second call: the list without the containers whose weight class no
\* area allows.
OutboundWithout ==
    /\ pc = "loop"
    /\ i = 1
    /\ StartRun(SelectSeq(containers,
                          LAMBDA c : \E a \in AreaNameSet :
                                         c.weight_class \in areas[a].allowed_weight_classes))

NextOutbound ==
    \/ OutboundWhole \/ OutboundWithout
    \/ ExportGroup \/ ExportArea \/ ExportPlace \/ ExportAreaDone
    \/ ExportGroupsDone \/ ExportRemaining \/ ExportDone
    \/ Compile

SpecOutbound == InitOutbound /\ [][NextOutbound]_vars

\* ------------------------------------------- the grouping efficiency alone
\* _calculate_grouping_efficiency called on a placement map of up to
\* MaxRecords records, of containers of two carriers (each with its port) and
\* three neighbouring weight classes in two zones, for either strategy.
GroupingRecords ==
    { [position |-> None, area |-> a, transporter |-> t.transporter, port |-> t.port,
       weight_class |-> wc, size |-> 6, category |-> "Standard", iso_type |-> "22G1"] :
      a \in {"M1", "W1"},
      t \in { [transporter |-> "A", port |-> "X"], [transporter |-> "B", port |-> "Y"] },
      wc \in {5, 6, 7} }

RECURSIVE GroupingMapsUpTo(_)
GroupingMapsUpTo(n) ==
    IF n = 0 THEN {<<>>}
    ELSE LET shorter == GroupingMapsUpTo(n - 1)
         IN  shorter \cup
             { Append(map, [key |-> Len(map) + 1, value |-> rec]) :
               map \in shorter, rec \in GroupingRecords }

InitGrouping ==
    /\ containers = <<>>
    /\ given = RowsOf(containers)
    /\ operation_type \in {"IMPORT", "EXPORT"}
    /\ area_configurations = <<>>
    /\ num_proposals = 1
    /\ areas = InitializeAreas
    /\ placement_map \in GroupingMapsUpTo(MaxRecords)
    /\ area_usage = [a \in AreaNameSet |-> 0]
    /\ placed_count = 0
    /\ groups = <<>>
    /\ pc = "grouping"
    /\ g = 1
    /\ suitable_areas = <<>>
    /\ s = 1
    /\ loop_list = <<>>
    /\ k = 1
    /\ temp_placements = <<>>
    /\ area_placed_count = 0
    /\ temp_placed = 0
    /\ group_placed = FALSE
    /\ position_code = None
    /\ result = NoResult
    /\ proposals = <<>>
    /\ i = 0
    /\ import_placements = <<>>
    /\ export_placements = <<>>

\* The call, and the f"{grouping_efficiency:.1f}%" _compile_result makes of
\* what it returns.
Grouping ==
    /\ pc = "grouping"
    /\ LET grouping_efficiency == CalculateGroupingEfficiency(placement_map, operation_type)
       IN  result' = [fault |-> FALSE,
                      returned |-> grouping_efficiency,
                      grouping_efficiency |-> FormatPercent(grouping_efficiency.num,
                                                            grouping_efficiency.den)]
    /\ pc' = "grouped"
    /\ UNCHANGED << session, containers, inputs, areas, placement_map, area_usage, placed_count,
                    groups, g, suitable_areas, s, loop_list, k, temp_placements,
                    area_placed_count, temp_placed, group_placed, position_code,
                    proposals, i >>

NextGrouping == Grouping

SpecGrouping == InitGrouping /\ [][NextGrouping]_vars

\* ---------------------------------------------------------- the Imports tab
\* display_imports_tab's "Plan Imports" button on the planner main() has just
\* built: the containers are Container(unit_number, iso_type, transporter),
\* with no weight, no port and the default category, and the configuration
\* is {selected_area: planner.areas[selected_area].allowed_weight_classes}.
ImportsTabRows ==
    { [iso_type |-> "22G1", transporter |-> "A", weight |-> <<>>, port |-> None,
       category |-> "Standard"],
      [iso_type |-> "45G1", transporter |-> "B", weight |-> <<>>, port |-> None,
       category |-> "Standard"] }

\* The uploaded tables: one row, or two rows of one kind.
ImportsTabLists ==
    UNION { { <<c>> : c \in ContainerOfKind(1, row) } \cup
            { <<c, d>> : c \in ContainerOfKind(1, row), d \in ContainerOfKind(2, row) } :
            row \in ImportsTabRows }

\* area_config for the area chosen in the selectbox.
ImportsTabAreaConfig(selected_area) ==
    << [area_name |-> selected_area,
        weight_classes |-> InitializeAreas[selected_area].allowed_weight_classes] >>

\* The area chosen in the selectbox, read back from area_config's one key.
SelectedArea == area_configurations[1].area_name

InitImportsTab ==
    /\ containers \in ImportsTabLists
    /\ given = RowsOf(containers)
    /\ operation_type = "IMPORT"
    /\ \E selected_area \in AreaNameSet :
           area_configurations = ImportsTabAreaConfig(selected_area)
    /\ num_proposals = 1
    /\ areas = InitializeAreas
    /\ placement_map = <<>>
    /\ area_usage = [a \in AreaNameSet |-> 0]
    /\ placed_count = 0
    /\ groups = <<>>
    /\ pc = "loop"
    /\ g = 1
    /\ suitable_areas = <<>>
    /\ s = 1
    /\ loop_list = <<>>
    /\ k = 1
    /\ temp_placements = <<>>
    /\ area_placed_count = 0
    /\ temp_placed = 0
    /\ group_placed = FALSE
    /\ position_code = None
    /\ result = NoResult
    /\ proposals = <<>>
    /\ i = 0
    /\ import_placements = <<>>
    /\ export_placements = <<>>

NextImportsTab ==
    \/ StartProposal
    \/ ImportGroup \/ ImportPlace \/ ImportCheck \/ ImportDone
    \/ Compile

SpecImportsTab == InitImportsTab /\ [][NextImportsTab]_vars

\* -------------------------------------------------- operation auto-detection
\* The single-page planner's upload with "Auto-detect" chosen, followed by
\* "Generate Layout Proposals". A table row is a function from the table's
\* column names to the row's cells; `given` holds the uploaded rows.

\* detect_operation_type(df), columns standing for df.columns.
DetectOperationType(columns) ==
    IF "Port" \in columns /\ "Weight" \in columns THEN "EXPORT"
    ELSE IF "Transporter" \in columns THEN "IMPORT"
    ELSE "UNKNOWN"

\* row.get(column, default)
RowGet(row, column, default) ==
    IF column \in DOMAIN row THEN row[column] ELSE default

\* The welcome screen's IMPORT format and EXPORT format.
ImportFormatColumns == { "Unit Number", "ISO Type", "Transporter Name", "Category" }

ExportFormatColumns == { "Unit Number", "ISO Type", "Weight", "Port", "Category" }

\* The cells of the n-th uploaded row, by column (weights in hundredths of a
\* tonne).
CellsOfRow(n) ==
    [column \in ImportFormatColumns \cup ExportFormatColumns \cup {"Transporter"} |->
        CASE column = "Unit Number" -> n
          [] column = "ISO Type" -> "22G1"
          [] column \in {"Transporter Name", "Transporter"} ->
                 IF n = 1 THEN "A" ELSE "B"
          [] column = "Category" -> "Standard"
          [] column = "Weight" -> IF n = 1 THEN 4000 ELSE 1000
          [] column = "Port" -> IF n = 1 THEN "X" ELSE "Y"]

\* The uploaded tables: one or two rows under any set of columns that holds
\* "Unit Number" and "ISO Type".
UploadedTables ==
    { [n \in 1..rows |-> [column \in columns |-> CellsOfRow(n)[column]]] :
        rows \in {1, 2},
        columns \in { {"Unit Number", "ISO Type"} \cup optional :
                      optional \in SUBSET (DOMAIN CellsOfRow(1)) } }

\* Outcomes of random.uniform(10, 35), the weight of a row of a table that
\* has no "Weight" column.
DrawnWeights == {1000, 3500}

\* The containers "Generate Layout Proposals" builds from the rows.
RECURSIVE ContainersOfTable(_, _)
ContainersOfTable(table, n) ==
    IF n = 0 THEN {<<>>}
    ELSE LET row == table[n]
         IN  UNION { { Append(l, c) :
                         c \in Container(row["Unit Number"],
                                         RowGet(row, "ISO Type", "22G1"),
                                         RowGet(row, "Transporter Name", "Unknown"),
                                         <<weight>>,
                                         RowGet(row, "Port", "DUBAI"),
                                         RowGet(row, "Category", "Standard")) } :
                     l \in ContainersOfTable(table, n - 1),
                     weight \in IF "Weight" \in DOMAIN row THEN {row["Weight"]}
                                ELSE DrawnWeights }

\* The area configuration the page builds from its multiselects' defaults.
AllClassesConfiguration ==
    [n \in 1..Len(AreaNames) |-> [area_name |-> AreaNames[n], weight_classes |-> 1..8]]

InitDetect ==
    /\ given \in UploadedTables
    /\ containers = <<>>
    /\ operation_type = None
    /\ area_configurations = AllClassesConfiguration
    /\ num_proposals = 1
    /\ areas = InitializeAreas
    /\ placement_map = <<>>
    /\ area_usage = [a \in AreaNameSet |-> 0]
    /\ placed_count = 0
    /\ groups = <<>>
    /\ pc = "upload"
    /\ g = 1
    /\ suitable_areas = <<>>
    /\ s = 1
    /\ loop_list = <<>>
    /\ k = 1
    /\ temp_placements = <<>>
    /\ area_placed_count = 0
    /\ temp_placed = 0
    /\ group_placed = FALSE
    /\ position_code = None
    /\ result = NoResult
    /\ proposals = <<>>
    /\ i = 0
    /\ import_placements = <<>>
    /\ export_placements = <<>>

\* The upload handler under "Auto-detect":
\* st.session_state.operation_type = optimizer.detect_operation_type(df).
DetectOperation ==
    /\ pc = "upload"
    /\ operation_type' = DetectOperationType(DOMAIN given[1])
    /\ pc' = "loaded"
    /\ UNCHANGED << session, given, containers, area_configurations, num_proposals, areas,
                    placement_map, area_usage, placed_count, groups, g, suitable_areas,
                    s, loop_list, k, temp_placements, area_placed_count, temp_placed,
                    group_placed, position_code, result, proposals, i >>

\* The button's handler up to its call of generate_multiple_proposals.
BuildContainers ==
    /\ pc = "loaded"
    /\ containers' \in ContainersOfTable(given, Len(given))
    /\ pc' = "loop"
    /\ UNCHANGED << session, inputs, areas, placement_map, area_usage, placed_count, groups, g,
                    suitable_areas, s, loop_list, k, temp_placements, area_placed_count,
                    temp_placed, group_placed, position_code, result, proposals, i >>

NextDetect ==
    \/ DetectOperation
    \/ BuildContainers
    \/ StartProposal
    \/ ImportGroup \/ ImportPlace \/ ImportCheck \/ ImportDone
    \/ ExportGroup \/ ExportArea \/ ExportPlace \/ ExportAreaDone
    \/ ExportGroupsDone \/ ExportDone
    \/ Compile

SpecDetect == InitDetect /\ [][NextDetect]_vars

\* ------------------------------------------------------------ one zone alone
\* Any sequence of up to MaxPlacements place_container calls on one zone of
\* a yard of ZoneRows rows, which has 12 m slots with and without reefer
\* plugs in Q1 and Q2 and several slots of each length in every zone. The
\* zone is suitable_areas[1]; `containers` holds the containers handed over.
ZoneKinds ==
    { [iso_type |-> "22G1", transporter |-> "A", weight |-> <<4000>>, port |-> "X",
       category |-> "Standard"],
      [iso_type |-> "22G1", transporter |-> "A", weight |-> <<1000>>, port |-> "X",
       category |-> "Standard"],
      [iso_type |-> "45G1", transporter |-> "A", weight |-> <<4000>>, port |-> "X",
       category |-> "Standard"],
      [iso_type |-> "45R1", transporter |-> "A", weight |-> <<4000>>, port |-> "X",
       category |-> "Reefer"] }

\* _initialize_areas for the yard of ZoneRows rows.
ZoneAreas ==
    [name \in AreaNameSet |->
        [InitializeAreas[name] EXCEPT !.positions =
            InitializePositionsIn(name, InitializeAreas[name].max_stack_height,
                                  1, 1, ZoneRows)]]

InitZone ==
    /\ given = <<>>
    /\ containers = <<>>
    /\ operation_type = "IMPORT"
    /\ area_configurations = <<>>
    /\ num_proposals = 1
    /\ areas = ZoneAreas
    /\ placement_map = <<>>
    /\ area_usage = [a \in AreaNameSet |-> 0]
    /\ placed_count = 0
    /\ groups = <<>>
    /\ pc = "zone"
    /\ g = 1
    /\ \E area_name \in AreaNameSet : suitable_areas = <<area_name>>
    /\ s = 1
    /\ loop_list = <<>>
    /\ k = 1
    /\ temp_placements = <<>>
    /\ area_placed_count = 0
    /\ temp_placed = 0
    /\ group_placed = FALSE
    /\ position_code = None
    /\ result = NoResult
    /\ proposals = <<>>
    /\ i = 0
    /\ import_placements = <<>>
    /\ export_placements = <<>>

\* position_code = self.areas[area_name].place_container(container)
ZonePlaceContainer ==
    /\ pc = "zone"
    /\ Len(containers) < MaxPlacements
    /\ \E kind \in ZoneKinds :
        \E container \in ContainerOfKind(Len(containers) + 1, kind) :
            LET area_name == suitable_areas[s]
                placed == AreaPlaceContainer(areas[area_name], container)
            IN  /\ areas' = [areas EXCEPT ![area_name] = placed[1]]
                /\ position_code' = placed[2]
                /\ containers' = Append(containers, container)
    /\ UNCHANGED << session, inputs, placement_map, area_usage, placed_count, groups, pc, g,
                    suitable_areas, s, loop_list, k, temp_placements,
                    area_placed_count, temp_placed, group_placed, result, proposals, i >>

NextZone == ZonePlaceContainer

SpecZone == InitZone /\ [][NextZone]_vars

\* ------------------------------------------------------ the two-tab planner
\* YardPlanner of yardplannerV2.py (yardplannerV2A.py has the same methods):
\* every position of an area is a code string, area, row, column, tier, and
\* a plan takes the area's codes that are not in used_positions, in order.

\* "for tier in range(1, 5)": tiers per stack.
PlannerTiers == 4

\* Container.__init__ of the two-tab planner: the containers it can build.
PlannerContainer(unit_number, iso_type, transporter, weight, port, op) ==
    { [unit_number |-> unit_number, iso_type |-> iso_type,
       transporter |-> transporter, weight |-> weight, port |-> port,
       operation_type |-> op,
       size |-> IF iso_type # None /\ Contains(iso_type, "45") THEN 12 ELSE 6,
       weight_class |-> wc] :
      wc \in DetermineWeightClass(weight) }

\* YardPlanner.areas
PlannerAreas == << "M1", "M2", "W1", "W2", "Q1", "Q2" >>

\* YardPlanner._initialize_positions for one area, from (row, col, tier) on:
\* rows ascending with the walkways skipped, columns ascending, tiers
\* ascending.
RECURSIVE PlannerPositionsFrom(_, _, _, _)
PlannerPositionsFrom(area, row, col, tier) ==
    IF row > NumRows THEN <<>>
    ELSE IF row % 4 = 0 \/ col > NumCols
         THEN PlannerPositionsFrom(area, row + 1, 1, 1)
    ELSE IF tier > PlannerTiers
         THEN PlannerPositionsFrom(area, row, col + 1, 1)
    ELSE << area \o ToString(row) \o AllColumns[col] \o ToString(tier) >>
         \o PlannerPositionsFrom(area, row, col, tier + 1)

\* YardPlanner.area_positions
area_positions ==
    [area \in { PlannerAreas[n] : n \in 1..Len(PlannerAreas) } |->
        PlannerPositionsFrom(area, 1, 1, 1)]

\* get_available_positions that does not exclude the used positions.
PlannerGetAvailablePositionsAll(area, used_positions) == area_positions[area]

\* YardPlanner.get_available_positions
PlannerGetAvailablePositions(area, used_positions) ==
    LET used_set == { used_positions[n] : n \in 1..Len(used_positions) }
    IN  SelectSeq(area_positions[area], LAMBDA pos : pos \notin used_set)

\* The containers of the groups, in the order the nested loops "for ... in
\* transporter_groups.items(): for container in trans_containers" visit them.
RECURSIVE GroupedOrder(_)
GroupedOrder(transporter_groups) ==
    IF transporter_groups = <<>> THEN <<>>
    ELSE transporter_groups[1].members \o GroupedOrder(Tail(transporter_groups))

\* The placement loop of plan_imports from the n-th container of the order.
RECURSIVE PlanImportsFrom(_, _, _, _, _, _, _)
PlanImportsFrom(cs, selected_area, available_positions, order, n, position_index, placements) ==
    IF n > Len(order) THEN placements
    ELSE IF position_index < Len(available_positions)
         THEN LET container == cs[order[n]]
              IN  PlanImportsFrom(
                      cs, selected_area, available_positions, order, n + 1,
                      position_index + 1,
                      MapSet(placements, container.unit_number,
                             [position |-> available_positions[position_index + 1],
                              area |-> selected_area,
                              transporter |-> container.transporter,
                              size |-> container.size,
                              operation |-> "IMPORT",
                              weight_class |-> container.weight_class,
                              iso_type |-> container.iso_type]))
    ELSE PlanImportsFrom(cs, selected_area, available_positions, order, n + 1,
                         position_index, placements)

\* YardPlanner.plan_imports
PlanImports(cs, selected_area, used_positions) ==
    PlanImportsFrom(cs, selected_area,
                    PlannerGetAvailablePositions(selected_area, used_positions),
                    GroupedOrder(TransporterGroupsFrom(cs, <<>>, 1)), 1, 0, <<>>)

\* port_groups of plan_exports: items [port, weight_class, members], keyed
\* by the pair (port, weight_class) in first-seen order, the members being
\* indices into the container list, after containers n.. are added.
RECURSIVE PlannerPortGroupsFrom(_, _, _)
PlannerPortGroupsFrom(cs, port_groups, n) ==
    IF n > Len(cs) THEN port_groups
    ELSE LET IsKey(item) == /\ item.port = cs[n].port
                            /\ item.weight_class = cs[n].weight_class
             with_key == IF \E m \in 1..Len(port_groups) : IsKey(port_groups[m])
                         THEN port_groups
                         ELSE Append(port_groups,
                                     [port |-> cs[n].port,
                                      weight_class |-> cs[n].weight_class,
                                      members |-> <<>>])
         IN  PlannerPortGroupsFrom(
                 cs,
                 [m \in 1..Len(with_key) |->
                     IF IsKey(with_key[m])
                     THEN [with_key[m] EXCEPT !.members = Append(@, n)]
                     ELSE with_key[m]],
                 n + 1)

\* "for container in port_containers[:]" of plan_exports in one area: todo
\* is what is left of the copy, st the placements, used_positions and
\* port_containers so far.
RECURSIVE PlanExportsInArea(_, _, _, _, _, _)
PlanExportsInArea(cs, group, area, todo, available_positions, st) ==
    IF todo = <<>> THEN st
    ELSE IF available_positions # <<>>
         THEN LET container == cs[todo[1]]
                  position == available_positions[1]
              IN  PlanExportsInArea(
                      cs, group, area, Tail(todo), Tail(available_positions),
                      [placements |->
                           MapSet(st.placements, container.unit_number,
                                  [position |-> position,
                                   area |-> area,
                                   port |-> group.port,
                                   weight_class |-> group.weight_class,
                                   size |-> container.size,
                                   operation |-> "EXPORT",
                                   iso_type |-> container.iso_type]),
                       used_positions |-> Append(st.used_positions, position),
                       port_containers |-> ListRemove(st.port_containers, todo[1])])
    ELSE PlanExportsInArea(cs, group, area, Tail(todo), available_positions, st)

\* "for area in suitable_areas" of plan_exports for one group.
RECURSIVE PlanExportsInAreas(_, _, _, _)
PlanExportsInAreas(cs, group, suitable, st) ==
    IF suitable = <<>> \/ st.port_containers = <<>> THEN st
    ELSE PlanExportsInAreas(
             cs, group, Tail(suitable),
             PlanExportsInArea(cs, group, suitable[1], st.port_containers,
                               PlannerGetAvailablePositions(suitable[1],
                                                            st.used_positions),
                               st))

\* "for (port, weight_class), port_containers in port_groups.items()" from
\* the n-th group on; area_weight_config is the sequence of the dict's items.
RECURSIVE PlanExportsFrom(_, _, _, _, _)
PlanExportsFrom(cs, area_weight_config, port_groups, n, st) ==
    IF n > Len(port_groups) THEN st.placements
    ELSE LET group == port_groups[n]
             suitable ==
                 SelectSeq([m \in 1..Len(area_weight_config) |->
                               area_weight_config[m].area_name],
                           LAMBDA area :
                               \E m \in 1..Len(area_weight_config) :
                                   /\ area_weight_config[m].area_name = area
                                   /\ group.weight_class
                                        \in area_weight_config[m].weight_classes)
         IN  PlanExportsFrom(
                 cs, area_weight_config, port_groups, n + 1,
                 PlanExportsInAreas(cs, group, suitable,
                                    [st EXCEPT !.port_containers = group.members]))

\* YardPlanner.plan_exports
PlanExports(cs, area_weight_config, used_positions) ==
    PlanExportsFrom(cs, area_weight_config, PlannerPortGroupsFrom(cs, <<>>, 1), 1,
                    [placements |-> <<>>, used_positions |-> used_positions,
                     port_containers |-> <<>>])

\* YardPlanner.get_combined_layout
GetCombinedLayout(imports, exports) == MapUpdate(MapUpdate(<<>>, imports), exports)

\* [p['position'] for p in placements.values()]
PositionsOf(placements) ==
    [n \in 1..Len(placements) |-> placements[n].value.position]

\* The uploaded import tables are the first rows of this one.
PlannerImportRows ==
    << [iso_type |-> "22G1", transporter |-> "A"],
       [iso_type |-> "45G1", transporter |-> "B"] >>

\* The container lists the Imports tab builds from the first rows, up to
\* the n-th, of the table, unit numbers 1, 2, ...
RECURSIVE PlannerImportLists(_)
PlannerImportLists(n) ==
    IF n = 0 THEN {<<>>}
    ELSE PlannerImportLists(n - 1) \cup
         { Append(l, c) :
             l \in { short \in PlannerImportLists(n - 1) : Len(short) = n - 1 },
             c \in PlannerContainer(n, PlannerImportRows[n].iso_type,
                                    PlannerImportRows[n].transporter, <<>>, None,
                                    "IMPORT") }

\* The uploaded export tables are the first rows of this one.
PlannerExportRows ==
    << [iso_type |-> "22G1", weight |-> <<4000>>, port |-> "X"],
       [iso_type |-> "45G1", weight |-> <<1000>>, port |-> "Y"] >>

\* The container lists the Exports tab builds from the first rows, up to
\* the n-th, of the table, unit numbers 101, 102, ...
RECURSIVE PlannerExportLists(_)
PlannerExportLists(n) ==
    IF n = 0 THEN {<<>>}
    ELSE PlannerExportLists(n - 1) \cup
         { Append(l, c) :
             l \in { short \in PlannerExportLists(n - 1) : Len(short) = n - 1 },
             c \in PlannerContainer(100 + n, PlannerExportRows[n].iso_type, None,
                                    PlannerExportRows[n].weight,
                                    PlannerExportRows[n].port, "EXPORT") }

\* area_weight_config from the multiselects: every class in every area (the
\* defaults), or class 8 taken out of M1.
PlannerWeightConfigs ==
    { [n \in 1..Len(PlannerAreas) |->
          [area_name |-> PlannerAreas[n], weight_classes |-> 1..8]],
      [n \in 1..Len(PlannerAreas) |->
          [area_name |-> PlannerAreas[n],
           weight_classes |-> IF PlannerAreas[n] = "M1" THEN 1..7 ELSE 1..8]] }

InitPlanner ==
    /\ given = <<>>
    /\ containers = <<>>
    /\ operation_type = None
    /\ area_configurations = <<>>
    /\ num_proposals = 1
    /\ areas = InitializeAreas
    /\ placement_map = <<>>
    /\ area_usage = [a \in AreaNameSet |-> 0]
    /\ placed_count = 0
    /\ groups = <<>>
    /\ pc = "tabs"
    /\ g = 1
    /\ suitable_areas = <<>>
    /\ s = 1
    /\ loop_list = <<>>
    /\ k = 1
    /\ temp_placements = <<>>
    /\ area_placed_count = 0
    /\ temp_placed = 0
    /\ group_placed = FALSE
    /\ position_code = None
    /\ result = NoResult
    /\ proposals = <<>>
    /\ i = 0
    /\ import_placements = <<>>
    /\ export_placements = <<>>

\* The "Plan Imports" button of display_imports_tab.
PlanImportsButton ==
    /\ pc = "tabs"
    /\ \E import_containers \in PlannerImportLists(Len(PlannerImportRows)) :
        \E selected_area \in DOMAIN area_positions :
            import_placements' =
                PlanImports(import_containers, selected_area,
                            PositionsOf(export_placements))
    /\ UNCHANGED << export_placements, containers, inputs, areas, placement_map,
                    area_usage, placed_count, groups, pc, g, suitable_areas, s,
                    loop_list, k, temp_placements, area_placed_count, temp_placed,
                    group_placed, position_code, result, proposals, i >>

\* The "Plan Exports" button of display_exports_tab.
PlanExportsButton ==
    /\ pc = "tabs"
    /\ \E export_containers \in PlannerExportLists(Len(PlannerExportRows)) :
        \E area_weight_config \in PlannerWeightConfigs :
            export_placements' =
                PlanExports(export_containers, area_weight_config,
                            PositionsOf(import_placements))
    /\ UNCHANGED << import_placements, containers, inputs, areas, placement_map,
                    area_usage, placed_count, groups, pc, g, suitable_areas, s,
                    loop_list, k, temp_placements, area_placed_count, temp_placed,
                    group_placed, position_code, result, proposals, i >>

\* The "Clear All Data" button.
ClearAllData ==
    /\ pc = "tabs"
    /\ import_placements' = <<>>
    /\ export_placements' = <<>>
    /\ UNCHANGED << containers, inputs, areas, placement_map, area_usage,
                    placed_count, groups, pc, g, suitable_areas, s, loop_list, k,
                    temp_placements, area_placed_count, temp_placed, group_placed,
                    position_code, result, proposals, i >>

NextPlanner ==
    \/ PlanImportsButton
    \/ PlanExportsButton
    \/ ClearAllData

SpecPlanner == InitPlanner /\ [][NextPlanner]_vars

\* ================================================================ claims
\* The eight weight bands as documented, in hundredths of a ton.
DocumentedBands ==
    [b \in 1..8 |->
        CASE b = 1 -> [min |-> 0,    max |-> 1890]
          [] b = 2 -> [min |-> 1900, max |-> 2340]
          [] b = 3 -> [min |-> 2350, max |-> 2540]
          [] b = 4 -> [min |-> 2550, max |-> 2660]
          [] b = 5 -> [min |-> 2670, max |-> 2840]
          [] b = 6 -> [min |-> 2850, max |-> 3000]
          [] b = 7 -> [min |-> 3010, max |-> 3100]
          [] b = 8 -> [min |-> 3110, max |-> 5000]]

BandsHolding(w) ==
    { b \in 1..8 : DocumentedBands[b].min <= w /\ w <= DocumentedBands[b].max }

\* C7: a container with a present weight w is classified, by the constructor
\* and by assign_weight_classes alike, as the band whose closed interval
\* holds w, and as 8 when no band's interval holds w; 18.9 -> 1, 19.0 -> 2,
\* 50.0 -> 8, 60.0 -> 8; the class is always in 1..8.
C7_ClassifiesByBand ==
    \A n \in 1..Len(containers) :
        LET c == containers[n]
        IN  /\ c.weight_class \in 1..8
            /\ c.weight # <<>> =>
                 LET w == c.weight[1]
                 IN  /\ BandsHolding(w) # {} => BandsHolding(w) = {c.weight_class}
                     /\ BandsHolding(w) = {} => c.weight_class = 8
                     /\ w = 1890 => c.weight_class = 1
                     /\ w = 1900 => c.weight_class = 2
                     /\ w = 5000 => c.weight_class = 8
                     /\ w = 6000 => c.weight_class = 8

\* C7 witness: 19.0 t has been classified as band 2 by assign_weight_classes.
C7_Witness ==
    /\ pc = "assigned"
    /\ containers[1].weight = <<1900>>
    /\ containers[1].weight_class = 2

\* C8 as claimed: every weight from 0 to 50 t, in hundredths of a ton, lies
\* in exactly one band and is classified as that band, so only weights above
\* 50 t get class 8 through the no-match fallback.
C8_BandsExhaustive ==
    \A n \in 1..Len(containers) :
        LET c == containers[n]
        IN  (c.weight # <<>> /\ c.weight[1] >= 0 /\ c.weight[1] <= 5000) =>
                /\ Cardinality(BandsHolding(c.weight[1])) = 1
                /\ BandsHolding(c.weight[1]) = {c.weight_class}

\* -------------------------------------------------------- the yard claims
\* A position code as documented: zone name, row, column, tier.
CodeOf(area, row, column, tier) ==
    area \o ToString(row) \o column \o ToString(tier)

\* The positions of the record's area that the record's position code names.
SlotsOf(rec) ==
    { p \in 1..Len(areas[rec.area].positions) :
        \E tier \in 1..areas[rec.area].positions[p].max_tiers :
            rec.position = CodeOf(rec.area, areas[rec.area].positions[p].row,
                                  areas[rec.area].positions[p].column, tier) }

ContainerOf(unit_number) ==
    containers[CHOOSE n \in 1..Len(containers) : containers[n].unit_number = unit_number]

\* The reefer-eligible slots as documented.
ReeferEligible(area, row) ==
    \/ area = "M2"
    \/ area = "Q1" /\ row \in {2, 6, 10}
    \/ area = "Q2" /\ row \in {2, 6, 10, 12}

\* C1: every record of the placement map names a slot of its area whose
\* length is the container's (6 m on odd rows, 12 m on even rows that are not
\* walkways), and the container's weight class is in the area's permitted set
\* (which does not change from the placement to the end of the run).
C1_LengthAndWeightClass ==
    \A n \in 1..Len(placement_map) :
        LET rec == placement_map[n].value
            c == ContainerOf(placement_map[n].key)
        IN  /\ rec.area \in AreaNameSet
            /\ rec.size = c.size
            /\ \E p \in SlotsOf(rec) :
                 LET row == areas[rec.area].positions[p].row
                 IN  /\ row % 4 # 0
                     /\ c.size = IF row % 2 = 1 THEN 6 ELSE 12
            /\ c.weight_class \in areas[rec.area].allowed_weight_classes

\* C1 witness: a finished run that placed a 6 m and a 12 m container.
C1_Witness ==
    /\ pc = "loop" /\ i >= 1
    /\ \E n, m \in 1..Len(placement_map) :
         placement_map[n].value.size = 6 /\ placement_map[m].value.size = 12

\* C2: no record of the placement map puts a Reefer container on a slot that
\* is not reefer-eligible (any M2 slot, Q1 rows 2/6/10, Q2 rows 2/6/10/12).
C2_ReeferOnReeferSlots ==
    \A n \in 1..Len(placement_map) :
        LET rec == placement_map[n].value
            c == ContainerOf(placement_map[n].key)
        IN  (c.category = "Reefer" \/ rec.category = "Reefer") =>
                \E p \in SlotsOf(rec) :
                    ReeferEligible(rec.area, areas[rec.area].positions[p].row)

\* C2 witness: a finished run that placed Reefer containers in Q1 and in M2.
C2_Witness ==
    /\ pc = "loop" /\ i >= 1
    /\ \E n \in 1..Len(placement_map) :
         /\ placement_map[n].value.category = "Reefer"
         /\ placement_map[n].value.area \in {"Q1", "M2"}

\* C3: for every slot, 0 <= available_tiers <= max_tiers and no more
\* containers are stacked than the stack height, in every state; within a run
\* available_tiers never grows and a slot with no tier left takes nothing.
C3_TierBounds ==
    /\ [](\A a \in AreaNameSet : \A p \in 1..Len(areas[a].positions) :
            /\ areas[a].positions[p].available_tiers >= 0
            /\ areas[a].positions[p].available_tiers <= areas[a].positions[p].max_tiers
            /\ Len(areas[a].positions[p].containers) <= areas[a].max_stack_height)
    /\ [][pc # "loop" =>
            \A a \in AreaNameSet : \A p \in 1..Len(areas[a].positions) :
                /\ areas'[a].positions[p].available_tiers
                       <= areas[a].positions[p].available_tiers
                /\ areas[a].positions[p].available_tiers = 0
                       => areas'[a].positions[p] = areas[a].positions[p]]_vars

\* C3 witness: W1's 6 m slot is full and the area has just refused a container.
C3_Witness ==
    /\ pc = "place"
    /\ suitable_areas[s] = "W1"
    /\ k > 1
    /\ containers[loop_list[k - 1]].size = 6
    /\ ~InMap(placement_map, containers[loop_list[k - 1]].unit_number)
    /\ areas["W1"].positions[1].available_tiers = 0
    /\ position_code = None

\* C4: the k-th successful placement on a slot returns the position code of
\* that slot with tier k (1, 2, ... up to the stack height), and no position
\* code is held by two records of a run (those of the placement map and, while
\* a zone is being tried, those made in it so far).
C4_TierIsPlacementCount ==
    /\ [][pc # "loop" =>
            \A a \in AreaNameSet : \A p \in 1..Len(areas[a].positions) :
                areas'[a].positions[p].containers # areas[a].positions[p].containers =>
                    /\ Len(areas'[a].positions[p].containers)
                           = Len(areas[a].positions[p].containers) + 1
                    /\ Len(areas'[a].positions[p].containers)
                           <= areas[a].positions[p].max_tiers
                    /\ position_code' =
                           CodeOf(a, areas[a].positions[p].row,
                                  areas[a].positions[p].column,
                                  Len(areas'[a].positions[p].containers))]_vars
    /\ [](LET items == IF pc = "place" THEN placement_map \o temp_placements
                        ELSE placement_map
          IN  \A n, m \in 1..Len(items) :
                  n # m => items[n].value.position # items[m].value.position)

\* C4 witness: the fifth placement on M1's first slot returned tier 5.
C4_Witness ==
    /\ position_code = "M11A5"
    /\ Len(areas["M1"].positions[1].containers) = 5

\* C5: the placement map of a run, and of every proposal, holds at most as
\* many records as there are containers, every record is a listed
\* container's, and no container has two records.
C5_AtMostOneRecord ==
    LET maps == <<placement_map>> \o
                [n \in 1..Len(proposals) |-> proposals[n].placement_map]
    IN  \A m \in 1..Len(maps) :
            /\ Len(maps[m]) <= Len(containers)
            /\ \A x \in 1..Len(maps[m]) :
                 \E n \in 1..Len(containers) : containers[n].unit_number = maps[m][x].key
            /\ \A x, y \in 1..Len(maps[m]) : x # y => maps[m][x].key # maps[m][y].key

\* C5 witness: a finished run that placed some containers and not others.
C5_Witness ==
    /\ pc = "loop" /\ i >= 1
    /\ Len(placement_map) > 0
    /\ Len(placement_map) < Len(containers)

\* C6: when every container has a weight and an ISO type that fixes its
\* length, the runs of the same strategy on fresh yards with the same
\* configuration and container list give the same placement map.
C6_Deterministic ==
    (\A n \in 1..Len(containers) :
        /\ containers[n].weight # <<>>
        /\ Cardinality(DetermineSize(containers[n].iso_type)) = 1)
    => \A x, y \in 1..Len(proposals) :
           proposals[x].placement_map = proposals[y].placement_map

\* C6 witness: two runs on a weighted, typed list are done, with placements.
C6_Witness ==
    /\ Len(proposals) = 2
    /\ Len(proposals[2].placement_map) >= 2
    /\ \A n \in 1..Len(containers) : containers[n].weight # <<>>

\* A record made by the group phase of the import strategy has no port key.
GroupPhaseRecord(rec) == "port" \notin DOMAIN rec

AreaIndex(area_name) == CHOOSE n \in 1..Len(AreaNames) : AreaNames[n] = area_name

\* C9: after a group was tried in a candidate zone, the group is committed
\* there iff 5 * placed >= 4 * group size: exactly the placements made in that
\* zone join the placement map, the zone's usage grows by their number and the
\* next group follows; otherwise nothing is committed and the next candidate
\* zone (or the fallback) follows. Candidate zones are tried in declaration
\* order, and the group-phase records of one carrier are all in one zone.
C9_CommitAtEightyPercent ==
    /\ [][(operation_type = "IMPORT" /\ pc = "place" /\ k > Len(loop_list)) =>
            IF 5 * area_placed_count >= 4 * Len(groups[g].members)
            THEN /\ placement_map' = placement_map \o temp_placements
                 /\ Len(temp_placements) = area_placed_count
                 /\ \A x \in 1..Len(temp_placements) :
                        temp_placements[x].value.area = suitable_areas[s]
                 /\ area_usage' = [area_usage EXCEPT
                                      ![suitable_areas[s]] = @ + area_placed_count]
                 /\ areas' = areas
                 /\ g' = g + 1
                 /\ pc' = "group"
            ELSE /\ placement_map' = placement_map
                 /\ area_usage' = area_usage
                 /\ g' = g
                 /\ IF s < Len(suitable_areas)
                    THEN pc' = "place" /\ s' = s + 1
                    ELSE pc' = "fallback"]_vars
    /\ [](operation_type = "IMPORT" =>
            /\ \A x, y \in 1..Len(suitable_areas) :
                 x < y => AreaIndex(suitable_areas[x]) < AreaIndex(suitable_areas[y])
            /\ \A n, m \in 1..Len(placement_map) :
                 ( /\ GroupPhaseRecord(placement_map[n].value)
                   /\ GroupPhaseRecord(placement_map[m].value)
                   /\ placement_map[n].value.transporter
                          = placement_map[m].value.transporter )
                 => placement_map[n].value.area = placement_map[m].value.area)

\* C9 witness: a group of five was committed with four of them placed.
C9_Witness ==
    /\ operation_type = "IMPORT" /\ pc = "group" /\ group_placed
    /\ g > 1
    /\ Len(groups[g - 1].members) = 5
    /\ area_placed_count = 4
    /\ Len(placement_map) = 4

\* The zone permits the weight class of every container of the group.
Qualifies(area_name, members) ==
    \A m \in 1..Len(members) :
        containers[members[m]].weight_class \in areas[area_name].allowed_weight_classes

\* C10: in the group phase of the import strategy a group is tried only in
\* zones that permit every weight class of the group; a group with no such
\* zone goes straight to the fallback and has no group-phase record.
C10_OnlyQualifyingZones ==
    /\ []((operation_type = "IMPORT" /\ pc = "place") =>
            Qualifies(suitable_areas[s], groups[g].members))
    /\ [][(operation_type = "IMPORT" /\ pc = "place") =>
            \A a \in AreaNameSet :
                areas'[a] # areas[a] => Qualifies(a, groups[g].members)]_vars
    /\ [][(/\ operation_type = "IMPORT" /\ pc = "group" /\ g <= Len(groups)
           /\ \A a \in AreaNameSet : ~Qualifies(a, groups[g].members)) =>
            /\ pc' = "fallback"
            /\ areas' = areas
            /\ placement_map' = placement_map]_vars
    /\ [](operation_type = "IMPORT" =>
            \A n \in 1..Len(placement_map) :
                GroupPhaseRecord(placement_map[n].value) =>
                    \A m \in 1..Len(containers) :
                        containers[m].transporter = placement_map[n].value.transporter
                        => containers[m].weight_class \in
                               areas[placement_map[n].value.area].allowed_weight_classes)

\* C10 witness: the first group, which no zone qualifies for, is in the fallback, which
\* has placed one of its containers.
C10_Witness ==
    /\ operation_type = "IMPORT" /\ pc = "fallback"
    /\ g = 1
    /\ suitable_areas = <<>>
    /\ position_code # None
    /\ k > 1

\* ------------------------------------------------------ the fallback claims
\* The zone has a slot the container is compatible with: of its length, with
\* a tier left and, for a reefer, reefer-eligible.
HasCompatibleSlot(area_name, container) ==
    \E p \in 1..Len(areas[area_name].positions) :
        LET position == areas[area_name].positions[p]
        IN  /\ position.container_length = container.size
            /\ position.available_tiers > 0
            /\ container.category = "Reefer" => ReeferEligible(area_name, position.row)

\* The zones, by their place in the declaration order, that permit the
\* container's weight class and have a compatible slot.
ZonesTaking(container) ==
    { n \in 1..Len(AreaNames) :
        /\ container.weight_class \in areas[AreaNames[n]].allowed_weight_classes
        /\ HasCompatibleSlot(AreaNames[n], container) }

FirstOf(indices) == CHOOSE n \in indices : \A m \in indices : n <= m

\* What one per-container placement does to the map, the yard and the usage
\* counters: the container joins the map in the first zone that takes it and
\* nothing else changes, or nothing changes at all when no zone takes it.
PlacedInFirstZone(container) ==
    IF ZonesTaking(container) = {}
    THEN /\ placement_map' = placement_map
         /\ areas' = areas
         /\ area_usage' = area_usage
    ELSE LET a == AreaNames[FirstOf(ZonesTaking(container))]
         IN  /\ Len(placement_map') = Len(placement_map) + 1
             /\ SubSeq(placement_map', 1, Len(placement_map)) = placement_map
             /\ placement_map'[Len(placement_map')].key = container.unit_number
             /\ placement_map'[Len(placement_map')].value.area = a
             /\ \A b \in AreaNameSet \ {a} : areas'[b] = areas[b]
             /\ areas'[a] # areas[a]
             /\ area_usage' = [area_usage EXCEPT ![a] = @ + 1]

\* C11: in the import strategy the fallback is entered for a group exactly
\* when the group has no candidate zone or its last candidate zone failed the
\* 80% test (every earlier one having failed before it), and a group is left
\* only by a commit or through the fallback; in the fallback no container of
\* the group has a group-phase record; each pass of the fallback puts a still
\* unplaced container into the first zone, in declaration order, that permits
\* its class and has a compatible slot, or leaves it out of the map.
C11_FallbackIffNoZoneCommitted ==
    /\ [][(operation_type = "IMPORT" /\ pc # "fallback" /\ pc' = "fallback") =>
            \/ pc = "group" /\ suitable_areas' = <<>>
            \/ /\ pc = "place" /\ k > Len(loop_list)
               /\ s = Len(suitable_areas)
               /\ 5 * area_placed_count < 4 * Len(groups[g].members)]_vars
    /\ [][(operation_type = "IMPORT" /\ pc = "place" /\ s' # s) =>
            /\ s' = s + 1
            /\ 5 * area_placed_count < 4 * Len(groups[g].members)]_vars
    /\ [][(operation_type = "IMPORT" /\ g' # g /\ pc # "loop") =>
            \/ pc = "fallback" /\ k > Len(loop_list)
            \/ /\ pc = "place"
               /\ 5 * area_placed_count >= 4 * Len(groups[g].members)]_vars
    /\ []((operation_type = "IMPORT" /\ pc = "fallback") =>
            /\ ~group_placed
            /\ \A n \in 1..Len(placement_map) :
                 placement_map[n].value.transporter = groups[g].key
                 => ~GroupPhaseRecord(placement_map[n].value))
    /\ [][(operation_type = "IMPORT" /\ pc = "fallback" /\ k <= Len(loop_list)) =>
            IF InMap(placement_map, containers[loop_list[k]].unit_number)
            THEN placement_map' = placement_map /\ areas' = areas
            ELSE PlacedInFirstZone(containers[loop_list[k]])]_vars

\* C11 witness: the first group had a candidate zone, failed the 80% test in
\* it, and the fallback has placed one of its two containers and left the
\* other out.
C11_Witness ==
    /\ operation_type = "IMPORT" /\ pc = "fallback"
    /\ g = 1
    /\ suitable_areas # <<>>
    /\ Len(loop_list) = 2
    /\ k > Len(loop_list)
    /\ Len(placement_map) = 1
    /\ ~GroupPhaseRecord(placement_map[1].value)

\* C12: in the export strategy the candidate zones of a (port, weight class)
\* group are the zones permitting the class, in declaration order; a
\* container tried in a zone is placed there iff the zone has a compatible
\* slot, and joins the map with that zone; and no container still waiting in
\* the group has a compatible slot in a candidate zone tried before, so a
\* later zone receives only what no earlier zone could take.
C12_DrainInDeclarationOrder ==
    /\ []((operation_type = "EXPORT" /\ pc \in {"area", "place"}) =>
            /\ \A x \in 1..Len(suitable_areas) :
                 groups[g].weight_class
                     \in areas[suitable_areas[x]].allowed_weight_classes
            /\ \A a \in AreaNameSet :
                 groups[g].weight_class \in areas[a].allowed_weight_classes
                 => \E x \in 1..Len(suitable_areas) : suitable_areas[x] = a
            /\ \A x, y \in 1..Len(suitable_areas) :
                 x < y => AreaIndex(suitable_areas[x]) < AreaIndex(suitable_areas[y])
            /\ \A m \in 1..Len(groups[g].members) :
                 \A x \in 1..Len(suitable_areas) :
                    x < s => ~HasCompatibleSlot(suitable_areas[x],
                                                containers[groups[g].members[m]]))
    /\ [][(operation_type = "EXPORT" /\ pc = "place" /\ k <= Len(loop_list)
           /\ ~InMap(placement_map, containers[loop_list[k]].unit_number)) =>
            IF HasCompatibleSlot(suitable_areas[s], containers[loop_list[k]])
            THEN /\ Len(placement_map') = Len(placement_map) + 1
                 /\ SubSeq(placement_map', 1, Len(placement_map)) = placement_map
                 /\ placement_map'[Len(placement_map')].key
                        = containers[loop_list[k]].unit_number
                 /\ placement_map'[Len(placement_map')].value.area = suitable_areas[s]
                 /\ \A m \in 1..Len(groups'[g].members) :
                        groups'[g].members[m] # loop_list[k]
            ELSE /\ placement_map' = placement_map
                 /\ groups' = groups]_vars

\* C12 witness: a container the first candidate zone could not take has just
\* been placed in the second, after another of its group went to the first.
C12_Witness ==
    /\ operation_type = "EXPORT" /\ pc = "place"
    /\ s = 2
    /\ k > 1
    /\ Len(placement_map) >= 2
    /\ placement_map[Len(placement_map)].key = containers[loop_list[k - 1]].unit_number
    /\ placement_map[Len(placement_map)].value.area = suitable_areas[2]
    /\ placement_map[Len(placement_map) - 1].value.area = suitable_areas[1]
    /\ placement_map[Len(placement_map) - 1].value.port = groups[g].port
    /\ placement_map[Len(placement_map) - 1].value.weight_class = groups[g].weight_class

\* ------------------------------------------------------- the result claims
\* C13: a planning run never ends in a fault, whatever the container list
\* (the empty list included) and the configuration.
C13_NeverFaults == pc # "fault"

CountOfLength(length) ==
    Cardinality({ n \in 1..Len(containers) : containers[n].size = length })

\* How many containers of this length the zone can hold.
CapacityOfLength(area_name, length) ==
    LET RECURSIVE Tiers(_)
        Tiers(p) ==
            IF p = 0 THEN 0
            ELSE (IF areas[area_name].positions[p].container_length = length
                  THEN areas[area_name].positions[p].max_tiers ELSE 0) + Tiers(p - 1)
    IN  Tiers(Len(areas[area_name].positions))

\* A zone permits all weight classes, and every open zone has ample capacity:
\* room for all the list's containers of either length.
AmpleCapacity ==
    /\ \E a \in AreaNameSet : areas[a].allowed_weight_classes = 1..8
    /\ \A a \in AreaNameSet :
         areas[a].allowed_weight_classes # {}
         => /\ CapacityOfLength(a, 6) >= CountOfLength(6)
            /\ CapacityOfLength(a, 12) >= CountOfLength(12)

\* C15: ten Standard inbound containers of determinable length, six of
\* carrier A and four of carrier B, a zone permitting all weight classes and
\* ample capacity: the fallback is never entered, every group is committed by
\* the group phase with all its containers, and the efficiency is 100%.
C15_InboundScenario ==
    AmpleCapacity =>
        /\ pc # "fallback"
        /\ (pc = "group" /\ g > 1) =>
              /\ group_placed
              /\ \A m \in 1..Len(groups[g - 1].members) :
                    InMap(placement_map, containers[groups[g - 1].members[m]].unit_number)
        /\ \A n \in 1..Len(placement_map) : GroupPhaseRecord(placement_map[n].value)
        /\ (pc = "loop" /\ i = 1) =>
              /\ Len(result.placement_map) = Len(containers)
              /\ result.total_placed = result.total_containers
              /\ result.efficiency.num = 100 * result.efficiency.den
              /\ proposals[1].score = 100

\* C15 witness: the run of the scenario is over, in a yard whose one open
\* zone holds the ten containers, six of carrier A and four of carrier B.
C15_Witness ==
    /\ pc = "loop" /\ i = 1
    /\ AmpleCapacity
    /\ Len(containers) = 10
    /\ Cardinality({ n \in 1..Len(containers) : containers[n].transporter = "A" }) = 6
    /\ Cardinality({ n \in 1..Len(containers) : containers[n].transporter = "B" }) = 4
    /\ \A n \in 1..Len(containers) : containers[n].category = "Standard"
    /\ Len(groups) = 2
    /\ Len(placement_map) = 10

\* The weight classes a zone permits once the configuration is applied: the
\* configured set for a zone the configuration names, else the zone's own
\* (all classes in M1, M2, Q1 and Q2, classes 3 to 8 in W1 and W2).
ConfiguredClasses(area_name) ==
    IF \E n \in 1..Len(area_configurations) :
           area_configurations[n].area_name = area_name
    THEN LET n == CHOOSE n \in 1..Len(area_configurations) :
                      area_configurations[n].area_name = area_name
         IN  area_configurations[n].weight_classes
    ELSE IF area_name \in {"W1", "W2"} THEN 3..8 ELSE 1..8

\* No configured zone permits the weight class.
Unpermitted(weight_class) ==
    \A a \in AreaNameSet : weight_class \notin ConfiguredClasses(a)

\* In the export strategy a container whose weight class no zone permits is
\* never in the map; its group has no candidate zone and is never tried in
\* one; its turn in the individual fallback changes neither the yard nor the
\* map nor the counters; and a list of such containers alone ends with
\* nothing placed and an efficiency of 0.
UnpermittedLeftOut ==
    /\ [](\A n \in 1..Len(placement_map) :
            /\ ~Unpermitted(placement_map[n].value.weight_class)
            /\ ~Unpermitted(ContainerOf(placement_map[n].key).weight_class))
    /\ []((pc \in {"area", "place"} /\ Unpermitted(groups[g].weight_class)) =>
            suitable_areas = <<>> /\ pc = "area")
    /\ [][(pc \in {"group", "area"} /\ g <= Len(groups)
           /\ Unpermitted(groups[g].weight_class)) =>
            /\ areas' = areas
            /\ placement_map' = placement_map
            /\ area_usage' = area_usage
            /\ placed_count' = placed_count
            /\ pc' \in {"area", "group"}]_vars
    /\ [][(pc = "remaining" /\ k <= Len(loop_list)
           /\ Unpermitted(containers[loop_list[k]].weight_class)) =>
            /\ areas' = areas
            /\ placement_map' = placement_map
            /\ area_usage' = area_usage
            /\ placed_count' = placed_count]_vars
    /\ []((/\ pc = "loop" /\ i >= 1
           /\ \A n \in 1..Len(containers) : Unpermitted(containers[n].weight_class)) =>
            /\ result.placement_map = <<>>
            /\ result.total_placed = 0
            /\ result.efficiency.num = 0
            /\ proposals[i].score = 0)

\* The (port, weight class) groups of the rows that some zone permits, in
\* the order the export strategy visits them.
PermittedGroupsVisited(rows) ==
    LET cs == [n \in 1..Len(rows) |->
                  [port |-> rows[n].port,
                   weight_class |-> ClassifyFrom(rows[n].weight[1], 1)]]
        visited == ExportGroupOrder(PortGroupsFrom(cs, <<>>, 1))
        permitted == SelectSeq(visited, LAMBDA grp : ~Unpermitted(grp.weight_class))
    IN  [n \in 1..Len(permitted) |-> <<permitted[n].port, permitted[n].weight_class>>]

RowsPermitted(rows) ==
    SelectSeq(rows, LAMBDA row : ~Unpermitted(ClassifyFrom(row.weight[1], 1)))

\* C16: in the export strategy the containers whose weight class no
\* configured zone permits are placed neither by the group phase nor by the
\* individual fallback and are absent from the map (efficiency 0 when the
\* list holds only such containers); and the run on the list without them
\* gives the same placement map, whenever the groups of the other containers
\* are visited in the same order in both lists.
C16_UnpermittedAbsent ==
    /\ UnpermittedLeftOut
    /\ []((/\ Len(proposals) = 2
           /\ PermittedGroupsVisited(given) = PermittedGroupsVisited(RowsPermitted(given)))
          => proposals[1].placement_map = proposals[2].placement_map)

\* C16 as stated: the containers of the other groups are placed as if the
\* unpermitted containers were not in the list, that is, the run on the list
\* without them gives the same placement map.
C16_OthersAsIfAbsent ==
    /\ UnpermittedLeftOut
    /\ [](Len(proposals) = 2 => proposals[1].placement_map = proposals[2].placement_map)

\* C16 witness: both runs are over; the list held a container no zone
\* permits and containers of two other groups, which the first run placed.
C16_Witness ==
    /\ pc = "loop" /\ Len(proposals) = 2
    /\ \E n \in 1..Len(given) : Unpermitted(ClassifyFrom(given[n].weight[1], 1))
    /\ Len(PermittedGroupsVisited(given)) = 2
    /\ proposals[1].total_containers > proposals[2].total_containers
    /\ proposals[1].containers_placed = proposals[2].total_containers
    /\ proposals[1].placement_map = proposals[2].placement_map

\* ------------------------------------------------------ the record claims
\* C17: within a run every step leaves the records already in the placement
\* map where and as they are (the map only grows at its end), and no
\* container id is ever in the map twice.
C17_RecordsCreatedOnce ==
    /\ [][pc # "loop" =>
            /\ Len(placement_map') >= Len(placement_map)
            /\ SubSeq(placement_map', 1, Len(placement_map)) = placement_map]_vars
    /\ [](\A n, m \in 1..Len(placement_map) :
            placement_map[n].key = placement_map[m].key => n = m)

\* C17 witness: after one group was committed, the fallback has placed a
\* container of the next group, the committed records still in the map.
C17_Witness ==
    /\ operation_type = "IMPORT" /\ pc = "fallback"
    /\ g = 2
    /\ k > 1
    /\ position_code # None
    /\ Len(placement_map) >= 3
    /\ GroupPhaseRecord(placement_map[1].value)
    /\ ~GroupPhaseRecord(placement_map[Len(placement_map)].value)

\* The records of the placement map whose zone is this one.
RecordsIn(area_name) ==
    { n \in 1..Len(placement_map) : placement_map[n].value.area = area_name }

\* C18: each zone's usage counter is the number of records of the placement
\* map in that zone, so the counters add up to the number of placed
\* containers; and the result of a run reports a detail for exactly the
\* zones with nonzero usage, with that usage.
C18_UsageAccounting ==
    /\ \A a \in AreaNameSet : area_usage[a] = Cardinality(RecordsIn(a))
    /\ placed_count = Len(placement_map)
    /\ (pc = "loop" /\ i >= 1) =>
          /\ result.used_positions = Len(result.placement_map)
          /\ result.total_placed = Len(result.placement_map)
          /\ \A a \in AreaNameSet :
                area_usage[a] > 0 <=>
                    \E n \in 1..Len(result.area_usage) : result.area_usage[n].key = a
          /\ \A n \in 1..Len(result.area_usage) :
                /\ result.area_usage[n].value.containers_placed
                       = Cardinality(RecordsIn(result.area_usage[n].key))
                /\ \A m \in 1..Len(result.area_usage) :
                      result.area_usage[n].key = result.area_usage[m].key => n = m

\* C18 witness: a run is over that used two zones, one with three records,
\* and left the others unused.
C18_Witness ==
    /\ pc = "loop" /\ i >= 1
    /\ Len(result.area_usage) = 2
    /\ result.area_usage[1].value.containers_placed = 3
    /\ \E a \in AreaNameSet : area_usage[a] = 0
    /\ Len(placement_map) >= 4

\* ----------------------------------------------- the configuration claims
\* The configuration names the zone.
Named(configuration, area_name) ==
    \E n \in 1..Len(configuration) : configuration[n].area_name = area_name

\* The set the configuration gives for the zone it names.
ClassesNamed(configuration, area_name) ==
    configuration[CHOOSE n \in 1..Len(configuration) :
                      configuration[n].area_name = area_name].weight_classes

\* C19: applying a configuration gives every zone it names exactly the
\* configured set and leaves every other zone's set as it was; keys that are
\* no zone's name make no new zone; and no slot of any zone changes. This
\* holds for the configuration applied at the head of a run, and for any
\* configuration applied to the yard of any reachable state.
C19_ConfigurationApplied ==
    /\ [](\A configuration \in Configurations :
            LET applied == SetAreaWeightClasses(areas, configuration)
            IN  /\ DOMAIN applied = AreaNameSet
                /\ \A a \in AreaNameSet :
                     /\ applied[a].positions = areas[a].positions
                     /\ applied[a].name = areas[a].name
                     /\ applied[a].max_stack_height = areas[a].max_stack_height
                     /\ applied[a].allowed_weight_classes =
                            IF Named(configuration, a)
                            THEN ClassesNamed(configuration, a)
                            ELSE areas[a].allowed_weight_classes)
    /\ [][pc = "loop" /\ pc' # "loop" =>
            /\ DOMAIN areas' = AreaNameSet
            /\ \A a \in AreaNameSet :
                 /\ areas'[a].allowed_weight_classes = ConfiguredClasses(a)
                 /\ areas'[a].positions = InitializeAreas[a].positions]_vars

\* C19 witness: a run has started under a configuration that names M1 and
\* Q1, does not name W1, and has a key that is no zone's name; the yard of
\* the run before was in use when it was applied.
C19_Witness ==
    /\ pc = "group" /\ g = 1 /\ i = 1
    /\ Len(proposals[1].placement_map) >= 2
    /\ Named(area_configurations, "M1")
    /\ Named(area_configurations, "Q1")
    /\ ~Named(area_configurations, "W1")
    /\ \E n \in 1..Len(area_configurations) :
          area_configurations[n].area_name \notin AreaNameSet
    /\ areas["M1"].allowed_weight_classes = {}
    /\ areas["Q1"].allowed_weight_classes = {8}
    /\ areas["W1"].allowed_weight_classes = 3..8

\* --------------------------------------------------------- the metric claims
\* The consecutive pairs of records, in insertion order, that share the zone
\* and the carrier (import), or the zone and the port with weight classes at
\* most 1 apart (export).
GroupedPairs ==
    { n \in 1..(Len(placement_map) - 1) :
        LET a == placement_map[n].value
            b == placement_map[n + 1].value
        IN  /\ a.area = b.area
            /\ IF operation_type = "IMPORT"
               THEN a.transporter = b.transporter
               ELSE /\ a.port = b.port
                    /\ \E d \in {-1, 0, 1} : a.weight_class - b.weight_class = d }

\* The tenths of a percent, as printed.
Tenths(t) == ToString(t \div 10) \o "." \o ToString(t % 10) \o "%"

\* C20: the grouping efficiency is 100 * grouped pairs / (records - 1), 0 for
\* fewer than two records, and lies in [0, 100]; it is reported rounded to a
\* tenth of a percent.
C20_GroupingEfficiency ==
    pc = "grouped" =>
        /\ IF Len(placement_map) < 2
           THEN result.returned.num = 0
           ELSE result.returned.num * (Len(placement_map) - 1)
                    = 100 * Cardinality(GroupedPairs) * result.returned.den
        /\ result.returned.den > 0
        /\ result.returned.num >= 0
        /\ result.returned.num <= 100 * result.returned.den
        /\ \E t \in 0..1000 :
              /\ result.grouping_efficiency = Tenths(t)
              /\ 2 * (10 * result.returned.num - t * result.returned.den)
                     <= result.returned.den
              /\ 2 * (t * result.returned.den - 10 * result.returned.num)
                     <= result.returned.den

\* C20 witness: an export map of three records in one zone for one port,
\* with weight classes 7, 5 and 6: the first pair is two classes apart, the
\* second one class apart, and the efficiency is 50%.
C20_Witness ==
    /\ pc = "grouped"
    /\ operation_type = "EXPORT"
    /\ Len(placement_map) = 3
    /\ placement_map[1].value.weight_class = 7
    /\ placement_map[2].value.weight_class = 5
    /\ placement_map[3].value.weight_class = 6
    /\ \A n \in 1..3 : placement_map[n].value.area = "M1"
                       /\ placement_map[n].value.port = "X"
    /\ Cardinality(GroupedPairs) = 1
    /\ result.grouping_efficiency = "50.0%"

\* ------------------------------------------------------------------- C21
\* C21: planning imports in the Imports tab places every import container
\* in the selected area: every record of the resulting import placement map
\* has the selected area as its zone.
C21_PlannedInSelectedArea ==
    (pc = "loop" /\ i = 1) =>
        \A n \in 1..Len(result.placement_map) :
            result.placement_map[n].value.area = SelectedArea

\* ------------------------------------------------------------------- C22
\* C22: auto-detection returns EXPORT for a table that has both a Port and a
\* Weight column and IMPORT for a table in the documented import format
\* (Unit Number, ISO Type, Transporter Name, Category), so that a table in
\* the documented import format is planned by the carrier-grouped inbound
\* strategy: its placement records are the inbound strategy's.
C22_DetectsDocumentedFormats ==
    pc # "upload" =>
        LET columns == DOMAIN given[1]
        IN  /\ {"Port", "Weight"} \subseteq columns => operation_type = "EXPORT"
            /\ columns = ImportFormatColumns =>
                   /\ operation_type = "IMPORT"
                   /\ Strategy(operation_type) = "IMPORT"
                   /\ \A n \in 1..Len(placement_map) :
                          "transporter" \in DOMAIN placement_map[n].value

\* ------------------------------------------------------------------- C23
\* C23: within a zone, a non-Reefer container is placed on a
\* reefer-designated slot only when the zone has no compatible non-reefer
\* slot with remaining tiers.
C23_ReeferSlotsLastForOthers ==
    [][\A p \in 1..Len(areas[suitable_areas[s]].positions) :
          LET area == areas[suitable_areas[s]]
              container == containers'[Len(containers')]
          IN  (/\ pc = "zone"
               /\ areas'[suitable_areas[s]].positions[p] # area.positions[p]
               /\ area.positions[p].is_reefer_position
               /\ container.category # "Reefer")
              => ~ \E q \in 1..Len(area.positions) :
                     /\ ~area.positions[q].is_reefer_position
                     /\ CanPlaceContainer(area.positions[q], container,
                                          area.allowed_weight_classes)]_vars

\* ------------------------------------------------------------------- C24
\* C24: at the end of any inbound or outbound run every slot's occupancy
\* (max_tiers - available_tiers) equals the number of placement-map records
\* positioned on that slot, and no container occupies more than one slot.
C24_OccupancyMatchesRecords ==
    pc = "compile" =>
        /\ \A area_name \in AreaNameSet :
             \A p \in 1..Len(areas[area_name].positions) :
                areas[area_name].positions[p].max_tiers
                    - areas[area_name].positions[p].available_tiers
                = Cardinality({ n \in 1..Len(placement_map) :
                                  /\ placement_map[n].value.area = area_name
                                  /\ p \in SlotsOf(placement_map[n].value) })
        /\ \A n \in 1..Len(containers) :
             Cardinality({ slot \in UNION { { <<area_name, p>> :
                                               p \in 1..Len(areas[area_name].positions) } :
                                            area_name \in AreaNameSet } :
                             \E t \in 1..Len(areas[slot[1]].positions[slot[2]].containers) :
                                 areas[slot[1]].positions[slot[2]].containers[t]
                                     = containers[n].unit_number }) <= 1

\* ------------------------------------------------------------------- C25
\* C25: at the end of an inbound run every container absent from the
\* placement map cannot be placed: no zone permitting its weight class has
\* a slot of its length with remaining tiers (reefer-eligible for a Reefer).
C25_InboundMaximal ==
    (pc = "compile" /\ Strategy(operation_type) = "IMPORT") =>
        \A n \in 1..Len(containers) :
            ~InMap(placement_map, containers[n].unit_number)
                => ZonesTaking(containers[n]) = {}

\* ------------------------------------------------------------------- C26
\* C26: at the end of an outbound run every container absent from the
\* placement map cannot be placed: no zone permitting its weight class has
\* a slot of its length with remaining tiers (reefer-eligible for a Reefer).
C26_OutboundMaximal ==
    (pc = "compile" /\ Strategy(operation_type) = "EXPORT") =>
        \A n \in 1..Len(containers) :
            ~InMap(placement_map, containers[n].unit_number)
                => ZonesTaking(containers[n]) = {}

\* An outbound run ends with a container left out for want of room: a zone
\* permits its class and has a slot of its length, which is full.
C26_Witness ==
    /\ pc = "compile" /\ operation_type = "EXPORT"
    /\ \E n \in 1..Len(containers) :
        /\ ~InMap(placement_map, containers[n].unit_number)
        /\ \E area_name \in AreaNameSet :
            /\ containers[n].weight_class \in areas[area_name].allowed_weight_classes
            /\ \E p \in 1..Len(areas[area_name].positions) :
                /\ areas[area_name].positions[p].container_length = containers[n].size
                /\ areas[area_name].positions[p].available_tiers = 0

\* ------------------------------------------------------------------- C27
\* C27: the reported space utilization and every reported per-zone
\* utilization lie between 0% and 100%, whatever the number of containers
\* placed and the zones' stack heights.
C27_UtilizationWithinBounds ==
    "area_usage" \in DOMAIN result =>
        LET within == { Tenths(t) : t \in 0..1000 }
        IN  /\ result.space_utilization \in within
            /\ \A n \in 1..Len(result.area_usage) :
                   result.area_usage[n].value.utilization \in within

C29_NoSharedPosition ==
    /\ \A m \in 1..Len(import_placements) : \A n \in 1..Len(export_placements) :
           import_placements[m].value.position # export_placements[n].value.position
    /\ \A m, n \in 1..Len(import_placements) :
           m # n => import_placements[m].value.position
                        # import_placements[n].value.position
    /\ \A m, n \in 1..Len(export_placements) :
           m # n => export_placements[m].value.position
                        # export_placements[n].value.position

\* Both plans hold two placements in one area, the imports planned around
\* the exports: the export plan has the area's first codes.
C29_Witness ==
    /\ Len(import_placements) >= 2 /\ Len(export_placements) >= 2
    /\ \E area \in DOMAIN area_positions :
        /\ \A n \in 1..Len(import_placements) : import_placements[n].value.area = area
        /\ \A n \in 1..Len(export_placements) : export_placements[n].value.area = area
        /\ export_placements[1].value.position = area_positions[area][1]

\* ------------------------------------------------------------------- C30
\* C30: in the two-tab planner, after any sequence of Plan Imports and Plan
\* Exports, the occupied tiers of every stack of the combined layout form a
\* contiguous range starting at tier 1: no container is planned at tier
\* k > 1 above an unoccupied tier k - 1.
C30_NoFloatingTier ==
    LET combined == GetCombinedLayout(import_placements, export_placements)
        occupied == { combined[n].value.position : n \in 1..Len(combined) }
    IN  \A area \in DOMAIN area_positions :
            \A p \in 1..Len(area_positions[area]) :
                (/\ area_positions[area][p] \in occupied
                 /\ (p - 1) % PlannerTiers # 0)
                => area_positions[area][p - 1] \in occupied
====
